---- MODULE Spec2Model ----
(***************************************************************************)
(* A model of the course build pipeline of genomes_workflow_lbcm_ufrgs:    *)
(* the LaTeX compiler driver (scripts/utils/latex_compiler.py), the module *)
(* validator (scripts/utils/module_validator.py) and the module combiner   *)
(* (scripts/utils/file_manager.py).                                        *)
(*                                                                         *)
(* Each component has its own specification over its own variables; the    *)
(* variables of the other components stay at their initial value.          *)
(*   SpecCompile   compile_tex_file / compile_multiple_passes              *)
(*   SpecValidate  validate_module                                         *)
(*   SpecCourse    validate_course_structure                               *)
(*   SpecCombine   combine_modules                                         *)
(*   SpecMerge     PDFMerger (scripts/utils/pdf_merger.py)                 *)
(***************************************************************************)
EXTENDS Integers, Sequences, FiniteSets, TLC

\* ------------------------------------------------------------------ bounds
\* The largest number of passes a caller asks for.
MaxPasses == 3
\* The largest number of *.tex files in a module directory.
MaxListing == 2
\* The largest number of README files in a module directory.
MaxReadme == 1
\* The longest list of module paths given to combine_modules.
MaxModules == 3
\* The largest number of entries in a course directory.
MaxEntries == 3
\* The longest list of input files given to merge_pdfs / validate_pdfs.
MaxInputs == 3
\* The longest list of bookmarks given to add_bookmarks.
MaxBookmarks == 2
\* The longest list of tags, stored in metadata.yaml or given to adjust_metadata.
MaxTags == 2
\* The longest file content given to _extract_document_content, in pieces.
MaxContent == 5
\* The largest number of files below a module directory given to get_module_info.
MaxFiles == 2

\* ------------------------------------------------------------ common values
\* Python's None.
None == "None"
\* A key that a result dictionary does not carry.
NoKey == "NoKey"

VARIABLES
    \* ---- compiler driver: the disk, the call's arguments, the call's position
    tex_exists,     \* tex_path.exists(): the source file is on disk
    dir_exists,     \* [Dirs -> BOOLEAN]: the directory is on disk
    pdf_exists,     \* [Dirs -> BOOLEAN]: <stem>.pdf is in the directory
    output_dir,     \* the output_dir argument: None or a directory
    passes,         \* the passes argument
    cm_pc,          \* compile_multiple_passes: "start", "loop", "returned", "raised"
    cm_i,           \* iterations of the for loop begun so far
    cm_result,      \* the local `result`
    calls,          \* history: one entry per compile_tex_file invocation
    procs,          \* history: the subprocesses spawned, "probe" or "compile"
    \* ---- the modules on disk, read by the validator and the combiner
    fs,             \* [Paths -> entry]: what is at each module path
    \* ---- module validator
    v_path,         \* the module_path argument of validate_module
    v_pc,           \* validate_module: "start", "returned"
    v_result,       \* the validation_result returned
    \* ---- course validator
    course,         \* what is at the course_path argument, see CourseDirectory
    c_pc,           \* validate_course_structure: "start", "returned", "raised"
    c_result,       \* the validation_result returned (<< >> while there is none)
    \* ---- module combiner
    module_paths,    \* the module_paths argument of combine_modules
    output_filename, \* the output_filename argument
    cb_pc,           \* combine_modules: "start", "returned", "raised"
    cb_log,          \* history: per module path, the file chosen and the outcome
    document,        \* the files written in the working directory: none or one
    cb_return,       \* the path returned (<< >> while there is none)
    \* ---- PDF merger
    HAS_PYPDF2,      \* the module-level flag: import PyPDF2 succeeded
    HAS_REPORTLAB,   \* the module-level flag: import reportlab succeeded
    requested,       \* the backend argument of PDFMerger(...)
    backend,         \* self.backend
    m_pc,            \* "new", "ready" (constructed), "returned"
    m_call,          \* the operation called, its arguments, the environment
    m_result,        \* the value returned (<< >> while there is none)
    pdf_disk,        \* [PdfNames \cup {OutputPdf} -> file]: the PDF files on disk
    \* ---- command-line program
    cli_args,        \* the parsed arguments: action, --module, --modules
    cli_pc,          \* main(): "start", "exited"
    cli_report,      \* what the action reported (<< >> while there is none)
    exit_code,       \* the exit status of the process (None while it runs)
    \* ---- metadata refresh
    meta_file,       \* modules/<folder>/metadata.yaml: << >> or << its mapping >>
    bib_file,        \* modules/<folder>/references.bib: << >> or << its lines >>
    md_call,         \* the arguments of adjust_metadata
    md_before,       \* history: metadata.yaml as it was when the call began
    md_pc,           \* adjust_metadata: "start", "returned", "raised"
    \* ---- _extract_document_content
    latex_content,   \* the latex_content argument
    ex_pc,           \* _extract_document_content: "start", "returned"
    ex_return,       \* the text returned
    \* ---- get_module_info
    module_tree,     \* what is at module_path: its README and the files below it
    gi_pc,           \* get_module_info: "start", "returned"
    gi_info,         \* the info dictionary returned
    \* ---- two pipeline instances running build_custom_course
    builder,         \* per instance: its arguments, position and locals
    file_tree        \* the output and working directories: what is at each file

compileVars == << tex_exists, dir_exists, pdf_exists, output_dir, passes,
                  cm_pc, cm_i, cm_result, calls, procs >>

validateVars == << v_path, v_pc, v_result >>

courseVars == << course, c_pc, c_result >>

combineVars == << module_paths, output_filename, cb_pc, cb_log, document,
                  cb_return >>

mergerVars == << HAS_PYPDF2, HAS_REPORTLAB, requested, backend, m_pc, m_call,
                 m_result, pdf_disk >>

cliVars == << cli_args, cli_pc, cli_report, exit_code >>

\* The variables of the components that are modelled further down.
metaVars == << meta_file, bib_file, md_call, md_before, md_pc >>

extractVars == << latex_content, ex_pc, ex_return >>

catalogVars == << module_tree, gi_pc, gi_info >>

pipelineVars == << builder, file_tree >>

tailVars == << extractVars, catalogVars, pipelineVars >>

laterVars == << cliVars, metaVars, tailVars >>

vars == << compileVars, fs, validateVars, courseVars, combineVars, mergerVars,
           laterVars >>

(***************************************************************************)
(* The modules on disk                                                     *)
(***************************************************************************)

\* The module paths of the model; the last component of each is its name.
Paths == {"intro", "adv_topics", "labs"}

\* The .tex files a module directory can hold: the three primary-file
\* candidates and one file that is no candidate.  "<name>.tex" stands for the
\* file named after the directory, f'{module_path.name}.tex'.
MainTex == "main.tex"
ModuleTex == "module.tex"
NameTex == "<name>.tex"
NotesTex == "notes.tex"
TexFiles == {MainTex, ModuleTex, NameTex, NotesTex}
\* The texts on disk at a path: of each .tex file of a directory, or of the
\* path itself ("self") when it is a regular file.
FileKeys == TexFiles \cup {"self"}

\* The README names validate_module looks for.
ReadmeNames == {"README.md", "README.txt", "readme.md", "readme.txt"}

\* The substrings of a file's text that the validator looks for.
DocClass == "\\documentclass"
BeginDoc == "\\begin{document}"
EndDoc == "\\end{document}"
Graphics == "\\includegraphics"
Ref == "\\ref{"
Cite == "\\cite{"
Label == "\\label{"
BibItem == "\\bibitem{"
Markers == {DocClass, BeginDoc, EndDoc, Graphics, Ref, Cite, Label, BibItem}

\* A file's text is a sequence of tokens (markers and other text); a file
\* whose open() or read() raises (permissions, bytes that are not UTF-8) has
\* no text.
Unreadable == << "unreadable" >>
Contains(text, marker) == \E k \in 1 .. Len(text) : text[k] = marker

Range(seq) == {seq[k] : k \in 1 .. Len(seq)}

\* Nothing at the path.
NoTexts == [f \in FileKeys |-> << >>]
Absent ==
    [kind |-> "absent", listing |-> << >>, text |-> NoTexts,
     readme |-> {}, images |-> "absent", data |-> FALSE]

\* A regular file at the path, with the given text.
RegularFile(t) ==
    [kind |-> "file", listing |-> << >>, text |-> [NoTexts EXCEPT !["self"] = t],
     readme |-> {}, images |-> "absent", data |-> FALSE]

\* A directory at the path: `listing` is its *.tex files in the order the
\* directory lists them (glob), `text` gives each listed one's text, `readme` the
\* README files in it, `images` what is at <dir>/images ("absent", "dir" or
\* "file"), `data` whether <dir>/data is a directory.
Directory(listing, text, readme, images, data) ==
    [kind |-> "dir", listing |-> listing, text |-> text,
     readme |-> readme, images |-> images, data |-> data]

NoModules == [p \in Paths |-> Absent]

Exists(e) == e.kind # "absent"
IsDir(e) == e.kind = "dir"
\* (module_path / file).exists() for a .tex file name.
HasTex(e, file) == IsDir(e) /\ file \in Range(e.listing)

\* The combiner's variables while another component runs.
CombineIdle ==
    /\ module_paths = << >>
    /\ output_filename = "combined_course.tex"
    /\ cb_pc = "idle"
    /\ cb_log = << >>
    /\ document = << >>
    /\ cb_return = << >>

\* The command-line program's variables while another component runs.
CliIdle ==
    /\ cli_args = << >>
    /\ cli_pc = "idle"
    /\ cli_report = << >>
    /\ exit_code = None

\* The metadata refresher's variables while another component runs.
MetaIdle ==
    /\ meta_file = << >>
    /\ bib_file = << >>
    /\ md_call = << >>
    /\ md_before = << >>
    /\ md_pc = "idle"

\* _extract_document_content's variables while another component runs.
ExtractIdle ==
    /\ latex_content = << >>
    /\ ex_pc = "idle"
    /\ ex_return = << >>

\* get_module_info's variables while another component runs.
CatalogIdle ==
    /\ module_tree = << >>
    /\ gi_pc = "idle"
    /\ gi_info = << >>

\* The pipeline instances' variables while another component runs.
PipelineIdle ==
    /\ builder = << >>
    /\ file_tree = << >>

TailIdle == ExtractIdle /\ CatalogIdle /\ PipelineIdle

LaterIdle == CliIdle /\ MetaIdle /\ TailIdle

\* The PDF merger's variables while another component runs.
MergerIdle ==
    /\ HAS_PYPDF2 = FALSE
    /\ HAS_REPORTLAB = FALSE
    /\ requested = "auto"
    /\ backend = "auto"
    /\ m_pc = "idle"
    /\ m_call = << >>
    /\ m_result = << >>
    /\ pdf_disk = << >>

\* The course validator's variables while another component runs.
CourseIdle ==
    /\ course = << >>
    /\ c_pc = "idle"
    /\ c_result = << >>

\* The compiler driver's variables while another component runs.
CompileIdle ==
    /\ tex_exists = FALSE
    /\ dir_exists = [d \in {"temp", "out"} |-> d = "temp"]
    /\ pdf_exists = [d \in {"temp", "out"} |-> FALSE]
    /\ output_dir = None
    /\ passes = 0
    /\ cm_pc = "idle"
    /\ cm_i = 0
    /\ cm_result = None
    /\ calls = << >>
    /\ procs = << >>

(***************************************************************************)
(* Module validator, scripts/utils/module_validator.py                     *)
(***************************************************************************)

\* main_tex_candidates = ['main.tex', 'module.tex', f'{module_path.name}.tex']
main_tex_candidates(name) == << MainTex, ModuleTex, NameTex >>

\* Mutant: without a candidate, any .tex file of the directory is taken.
main_tex_file_AnyTex(name, e) ==
    IF HasTex(e, MainTex) THEN MainTex
    ELSE IF HasTex(e, ModuleTex) THEN ModuleTex
    ELSE IF HasTex(e, NameTex) THEN NameTex
    ELSE IF IsDir(e) /\ e.listing # << >> THEN e.listing[1]
    ELSE None

\* The candidate loop: the first candidate that exists, or None.
main_tex_file(name, e) ==
    LET c == main_tex_candidates(name)
        found == {k \in 1 .. Len(c) : HasTex(e, c[k])}
    IN  IF found = {} THEN None
        ELSE c[CHOOSE k \in found : \A j \in found : k <= j]

NoMainTexFile == None

\* An entry of `errors`: the message and, for the missing primary file, the
\* candidates the message lists.
Err(msg, detail) == [msg |-> msg, detail |-> detail]
ErrNotFound == Err("Module directory not found", << >>)
ErrNotDir == Err("Module path is not a directory", << >>)
ErrNoMain(name) ==
    Err("No main LaTeX file found. Expected one of", main_tex_candidates(name))
ErrStructure == Err("Complete LaTeX document structure required", << >>)
ErrRead == Err("Failed to read LaTeX file", << >>)

WarnNoReadme == "No README file found"
WarnNoImages == "\\includegraphics used but no images directory found"
WarnNoLabels == "References used but no labels or bibliography found"

\* Mutant: an incomplete document is reported as a warning only.
StructureError_AsWarning(text) == FALSE

\* if '\\documentclass' in content and ('\\begin{document}' not in content
\*                                      or '\\end{document}' not in content)
StructureError(text) ==
    Contains(text, DocClass)
        /\ (~Contains(text, BeginDoc) \/ ~Contains(text, EndDoc))

\* _validate_latex_content(tex_file) for a file with text `text` in the
\* directory e.  (content.encode('utf-8') cannot fail on text that was decoded
\* from UTF-8, so its except branch adds nothing.)
validate_latex_content(e, text) ==
    IF text = Unreadable THEN [warnings |-> << >>, errors |-> << ErrRead >>]
    ELSE
        [errors |-> IF StructureError(text) THEN << ErrStructure >> ELSE << >>,
         warnings |->
            (IF Contains(text, Graphics) /\ e.images = "absent"
                THEN << WarnNoImages >> ELSE << >>)
            \o
            (IF (Contains(text, Ref) \/ Contains(text, Cite))
                    /\ ~Contains(text, Label) /\ ~Contains(text, BibItem)
                THEN << WarnNoLabels >> ELSE << >>)]

\* The README loop: one of the four names exists.
has_readme(e) == e.readme \cap ReadmeNames # {}

\* Mutant: the warning is appended in the loop, once per name that is absent.
readme_warnings_PerName(e) ==
    [k \in 1 .. Cardinality(ReadmeNames \ e.readme) |-> WarnNoReadme]

\* if not validation_result['info']['has_readme']: warnings.append(...)
readme_warnings(e) == IF has_readme(e) THEN << >> ELSE << WarnNoReadme >>

\* Mutant: errors found in the primary file's text do not clear `valid`.
LatexErrorsInvalidate_Never(errs) == FALSE

\* if latex_validation['errors']: validation_result['valid'] = False
LatexErrorsInvalidate(errs) == errs # << >>

Info(name, e, main, readme) ==
    [name |-> name, path |-> name, has_main_tex |-> main, has_readme |-> readme,
     has_images |-> (e.images = "dir"), has_data |-> e.data,
     tex_files |-> e.listing]

\* The `info` validate_module starts from (lines 43-52).
InitialInfo(name) ==
    [name |-> name, path |-> name, has_main_tex |-> FALSE,
     has_readme |-> FALSE, has_images |-> FALSE,
     has_data |-> FALSE, tex_files |-> << >>]

\* Mutant: the early `return` is missing, so the later checks run on the path
\* that is no directory: no candidate and no README is found there.
early_return_FallsThrough(name, err) ==
    [valid |-> FALSE, warnings |-> << WarnNoReadme >>,
     errors |-> << err, ErrNoMain(name) >>, info |-> InitialInfo(name)]

\* valid = False; errors.append(err); return validation_result  (lines 56-59
\* and 61-64): the result as initialised, with the one error.
early_return(name, err) ==
    [valid |-> FALSE, warnings |-> << >>, errors |-> << err >>,
     info |-> InitialInfo(name)]

\* validate_module(module_path) with e at the path.  (The image and data file
\* lists of `info` are not modelled.)
validate_module(name, e) ==
    IF ~Exists(e) THEN early_return(name, ErrNotFound)
    ELSE IF ~IsDir(e) THEN early_return(name, ErrNotDir)
    ELSE
        LET main   == main_tex_file(name, e)
            noMain == main = NoMainTexFile
            readme == has_readme(e)
            latex  == IF noMain THEN [warnings |-> << >>, errors |-> << >>]
                      ELSE validate_latex_content(e, e.text[main])
        IN  [valid |-> ~noMain /\ ~LatexErrorsInvalidate(latex.errors),
             warnings |-> readme_warnings(e) \o latex.warnings,
             errors |-> (IF noMain THEN << ErrNoMain(name) >> ELSE << >>)
                        \o latex.errors,
             info |-> Info(name, e, ~noMain, readme)]

ValidateIdle ==
    /\ v_path = None
    /\ v_pc = "idle"
    /\ v_result = None

\* One text for every combination of markers: the validator only tests which
\* markers a text contains.
MarkerOrder ==
    << DocClass, BeginDoc, Graphics, Ref, Cite, Label, BibItem, EndDoc >>
InSet(S, m) == m \in S
TextWith(S) == SelectSeq(MarkerOrder, LAMBDA m : InSet(S, m))
MarkerTexts == {TextWith(S) : S \in SUBSET Markers}

\* The listings of at most MaxListing files, each in one fixed order.
FileOrder == << MainTex, ModuleTex, NameTex, NotesTex >>
OrderedListings ==
    {SelectSeq(FileOrder, LAMBDA f : InSet(S, f)) :
        S \in {T \in SUBSET TexFiles : Cardinality(T) <= MaxListing}}

\* The directories validate_module is run on: any listing, the primary file
\* with any text or unreadable, the other files with plain text; a module
\* that has an images directory has a data directory too (<dir>/data feeds
\* nothing but info.has_data).
ValidatedDirectories(name) ==
    {Directory(l,
               [f \in FileKeys |->
                    IF f = main_tex_file(name, Directory(l, NoTexts, {}, "absent", FALSE))
                    THEN t
                    ELSE IF f \in Range(l) THEN << "text" >> ELSE << >>],
               r, i, i = "dir") :
        l \in OrderedListings,
        t \in MarkerTexts \cup {Unreadable},
        r \in {R \in SUBSET ReadmeNames : Cardinality(R) <= MaxReadme},
        i \in {"absent", "dir", "file"}}

\* The path validate_module is called with (the validator reads nothing of the
\* name but the <name>.tex candidate, which "<name>.tex" stands for).
ValidatedPaths == {"adv_topics"}

InitValidate ==
    /\ v_path \in ValidatedPaths
    /\ \E e \in {Absent, RegularFile(<< "text" >>)} \cup ValidatedDirectories(v_path) :
            fs = [NoModules EXCEPT ![v_path] = e]
    /\ v_pc = "start"
    /\ v_result = None
    /\ CompileIdle
    /\ CombineIdle
    /\ CourseIdle
    /\ MergerIdle
    /\ LaterIdle

\* validate_module(v_path) runs and returns.
ValidateModule ==
    /\ v_pc = "start"
    /\ v_result' = validate_module(v_path, fs[v_path])
    /\ v_pc' = "returned"
    /\ UNCHANGED << compileVars, fs, v_path, courseVars, combineVars,
                    mergerVars,
                    laterVars >>

NextValidate == ValidateModule

SpecValidate == InitValidate /\ [][NextValidate]_vars

\* validate_module has returned for a module path that is a directory.
ValidatedDir == v_pc = "returned" /\ IsDir(fs[v_path])

\* The text with the marker taken out if it is there, added if it is not.
Toggle(text, m) ==
    IF Contains(text, m) THEN SelectSeq(text, LAMBDA t : t # m)
    ELSE Append(text, m)

\* The directory e changed in one thing that only warnings depend on: a README
\* added or removed, <dir>/images added or removed, or one of the graphics,
\* reference and label markers added to or removed from the primary file.
WarningVariants(e) ==
    LET main == main_tex_file(v_path, e)
    IN  {[e EXCEPT !.readme = r] : r \in {{}, {"README.md"}}}
        \cup {[e EXCEPT !.images = i] : i \in {"absent", "dir"}}
        \cup (IF main = NoMainTexFile \/ e.text[main] = Unreadable
              THEN {}
              ELSE {[e EXCEPT !.text[main] = Toggle(@, m)] :
                        m \in {Graphics, Ref, Cite, Label, BibItem}})

\* C7: every ValidationResult returned by validate_module has
\* valid = (errors is empty); a change on disk that only adds or removes
\* warnings leaves errors and valid as they are.
C7_ValidIffNoErrors ==
    v_pc = "returned" =>
        /\ v_result.valid = (v_result.errors = << >>)
        /\ IsDir(fs[v_path]) =>
              \A e2 \in WarningVariants(fs[v_path]) :
                  LET r2 == validate_module(v_path, e2)
                  IN  r2.errors = v_result.errors /\ r2.valid = v_result.valid

\* C7 witness: a result that carries all three warnings and is valid.
C7_Witness ==
    /\ ValidatedDir
    /\ v_result.valid
    /\ v_result.errors = << >>
    /\ v_result.warnings = << WarnNoReadme, WarnNoImages, WarnNoLabels >>

\* None of the three candidates is in the directory.
NoCandidate(e) ==
    ~HasTex(e, MainTex) /\ ~HasTex(e, ModuleTex) /\ ~HasTex(e, NameTex)

\* C8: for an existing module directory with none of main.tex, module.tex,
\* <name>.tex, the result is invalid and `errors` (not `warnings`) holds the
\* entry that names the three candidates.
C8_MissingPrimaryIsError ==
    (ValidatedDir /\ NoCandidate(fs[v_path])) =>
        /\ ~v_result.valid
        /\ \E k \in 1 .. Len(v_result.errors) :
              /\ v_result.errors[k].msg = "No main LaTeX file found. Expected one of"
              /\ v_result.errors[k].detail = << "main.tex", "module.tex", "<name>.tex" >>
        /\ ~v_result.info.has_main_tex

\* C8 witness: a directory that holds only a .tex file that is no candidate.
C8_Witness ==
    /\ ValidatedDir
    /\ fs[v_path].listing = << NotesTex >>
    /\ ~v_result.valid

\* The text of the primary file validate_module selects.
PrimaryText(e) == e.text[main_tex_file(v_path, e)]

\* C9: when the primary file's text has the document-class marker and neither
\* the begin-document nor the end-document marker, the result is invalid and
\* the 'complete document structure required' entry is in `errors`, and
\* nowhere in `warnings`.
C9_IncompleteDocumentIsError ==
    (/\ ValidatedDir
     /\ ~NoCandidate(fs[v_path])
     /\ PrimaryText(fs[v_path]) # Unreadable
     /\ Contains(PrimaryText(fs[v_path]), DocClass)
     /\ ~Contains(PrimaryText(fs[v_path]), BeginDoc)
     /\ ~Contains(PrimaryText(fs[v_path]), EndDoc)) =>
        /\ ~v_result.valid
        /\ \E k \in 1 .. Len(v_result.errors) : v_result.errors[k] = ErrStructure
        /\ \A k \in 1 .. Len(v_result.warnings) :
              v_result.warnings[k] # ErrStructure.msg

\* C9 witness: a primary file with the document class only.
C9_Witness ==
    /\ ValidatedDir
    /\ ~NoCandidate(fs[v_path])
    /\ PrimaryText(fs[v_path]) = << DocClass >>
    /\ v_result.errors = << ErrStructure >>

\* An error condition of validate_module holds for the directory e.
ErrorCondition(e) ==
    \/ NoCandidate(e)
    \/ PrimaryText(e) = Unreadable
    \/ /\ Contains(PrimaryText(e), DocClass)
       /\ ~(Contains(PrimaryText(e), BeginDoc) /\ Contains(PrimaryText(e), EndDoc))

\* C10: for an existing module directory with no README file the
\* missing-README warning is reported exactly once, and the result is valid
\* whenever no error condition holds.
C10_MissingReadmeWarnsOnce ==
    (ValidatedDir /\ fs[v_path].readme = {}) =>
        /\ Cardinality({k \in 1 .. Len(v_result.warnings) :
                            v_result.warnings[k] = WarnNoReadme}) = 1
        /\ ~v_result.info.has_readme
        /\ ~ErrorCondition(fs[v_path]) => v_result.valid

\* C10 witness: no README, a complete primary file: valid, with the warning.
C10_Witness ==
    /\ ValidatedDir
    /\ fs[v_path].readme = {}
    /\ v_result.valid
    /\ v_result.warnings = << WarnNoReadme >>

\* C11: for a path that does not exist or is not a directory validate_module
\* returns valid = false with exactly one error (the one that names the
\* case) and no warnings, and none of the later checks has left a trace: no
\* primary-file error, no README warning, and `info` is as initialised.
C11_FailsClosedShortCircuit ==
    (v_pc = "returned" /\ ~IsDir(fs[v_path])) =>
        /\ ~v_result.valid
        /\ Len(v_result.errors) = 1
        /\ v_result.errors[1] = IF Exists(fs[v_path]) THEN ErrNotDir ELSE ErrNotFound
        /\ v_result.warnings = << >>
        /\ v_result.info = InitialInfo(v_path)

\* C11 witness: the path is a regular file, and the one error says so.
C11_Witness ==
    /\ v_pc = "returned"
    /\ fs[v_path].kind = "file"
    /\ v_result.errors = << ErrNotDir >>
    /\ ~v_result.valid

(***************************************************************************)
(* Course validator, validate_course_structure                             *)
(***************************************************************************)

\* The names an entry of the course directory can have, and those of them
\* that start with a dot (d.name.startswith('.')).
EntryNames == {"intro", "adv_topics", "labs", ".git"}
HiddenNames == {".git"}

\* What is at the course path: nothing, a regular file, or a directory whose
\* entries `listing` names in the order iterdir() yields them, `entry` giving
\* what each one is.
CourseDirectory(kind, listing, entry) ==
    [kind |-> kind, listing |-> listing, entry |-> entry]

\* The entries of the course directories of the model: a regular file, a
\* module that is valid, one that is valid with a warning, and one with no
\* primary file.
PlainText == << "text" >>
CompleteText == << DocClass, BeginDoc, "text", EndDoc >>
GoodModule ==
    Directory(<< MainTex >>, [NoTexts EXCEPT ![MainTex] = CompleteText],
              {"README.md"}, "absent", FALSE)
BareModule ==
    Directory(<< ModuleTex >>, [NoTexts EXCEPT ![ModuleTex] = CompleteText],
              {}, "absent", FALSE)
BrokenModule ==
    Directory(<< NotesTex >>, [NoTexts EXCEPT ![NotesTex] = PlainText],
              {}, "absent", FALSE)
CourseEntries == {RegularFile(PlainText), GoodModule, BareModule, BrokenModule}

\* Mutant: hidden directories are validated as modules too.
is_module_dir_AnyDir(name, e) == IsDir(e)

\* d.is_dir() and not d.name.startswith('.')
is_module_dir(name, e) == IsDir(e) /\ name \notin HiddenNames

\* module_dirs = [d for d in course_dir.iterdir() if ...]
module_dirs(c) ==
    SelectSeq(c.listing, LAMBDA d : is_module_dir(d, c.entry[d]))

\* The validation_result validate_course_structure starts from.
InitialCourseResult ==
    [valid |-> TRUE, warnings |-> << >>, errors |-> << >>,
     modules |-> [n \in {} |-> << >>],
     info |-> [course_path |-> "course", total_modules |-> 0,
               valid_modules |-> 0, invalid_modules |-> 0]]

\* The loop over module_dirs from position k on.
RECURSIVE course_loop(_, _, _, _)
course_loop(res, dirs, c, k) ==
    IF k > Len(dirs) THEN res
    ELSE
        LET module_result == validate_module(dirs[k], c.entry[dirs[k]])
            counted ==
                [res EXCEPT
                    !.modules = (dirs[k] :> module_result) @@ res.modules,
                    !.info.total_modules = @ + 1]
            next ==
                IF module_result.valid
                THEN [counted EXCEPT !.info.valid_modules = @ + 1]
                ELSE [counted EXCEPT !.info.invalid_modules = @ + 1,
                                     !.valid = FALSE]
        IN  course_loop(next, dirs, c, k + 1)

\* validate_course_structure(course_path) with c at the path, for a path that
\* iterdir() can list (anything but a regular file).
validate_course_structure(c) ==
    IF c.kind = "absent" THEN
        [InitialCourseResult EXCEPT
            !.valid = FALSE, !.errors = << "Course directory not found" >>]
    ELSE IF module_dirs(c) = << >> THEN
        [InitialCourseResult EXCEPT
            !.valid = FALSE, !.errors = << "No module directories found" >>]
    ELSE course_loop(InitialCourseResult, module_dirs(c), c, 1)

\* The listings of at most MaxEntries entries, in every order.
EntryListings ==
    UNION {{l \in [1 .. n -> EntryNames] :
                \A a, b \in 1 .. n : a # b => l[a] # l[b]} : n \in 0 .. MaxEntries}

NoEntries == [n \in EntryNames |-> Absent]

InitCourse ==
    /\ \/ course \in {CourseDirectory(k, << >>, NoEntries) : k \in {"absent", "file"}}
       \/ \E l \in EntryListings :
            \E on \in [Range(l) -> CourseEntries] :
                course = CourseDirectory("dir", l,
                            [n \in EntryNames |->
                                IF n \in DOMAIN on THEN on[n] ELSE Absent])
    /\ c_pc = "start"
    /\ c_result = << >>
    /\ fs = NoModules
    /\ CompileIdle
    /\ ValidateIdle
    /\ CombineIdle
    /\ MergerIdle
    /\ LaterIdle

\* validate_course_structure(course_path) runs: it returns its result, or
\* iterdir() raises NotADirectoryError for a course path that is a file.
ValidateCourseStructure ==
    /\ c_pc = "start"
    /\ IF course.kind = "file"
       THEN /\ c_pc' = "raised"
            /\ UNCHANGED c_result
       ELSE /\ c_pc' = "returned"
            /\ c_result' = << validate_course_structure(course) >>
    /\ UNCHANGED << compileVars, fs, validateVars, course, combineVars,
                    mergerVars,
                    laterVars >>

NextCourse == ValidateCourseStructure

SpecCourse == InitCourse /\ [][NextCourse]_vars

\* The non-hidden immediate subdirectories of the course directory.
Subdirectories ==
    {n \in Range(course.listing) :
        course.entry[n].kind = "dir" /\ n \notin {".git"}}

\* C12: for an existing course directory the result is consistent: `modules`
\* has one entry per non-hidden immediate subdirectory, each the result of
\* validate_module on that subdirectory; total_modules = valid_modules +
\* invalid_modules = the number of entries; valid_modules counts the valid
\* entries; and valid holds exactly when total_modules >= 1 and
\* invalid_modules = 0.
C12_CourseValidationConsistent ==
    (c_pc = "returned" /\ course.kind = "dir") =>
        LET r == c_result[1]
        IN  /\ DOMAIN r.modules = Subdirectories
            /\ \A n \in Subdirectories :
                  r.modules[n] = validate_module(n, course.entry[n])
            /\ r.info.total_modules = Cardinality(Subdirectories)
            /\ r.info.total_modules
                  = r.info.valid_modules + r.info.invalid_modules
            /\ r.info.valid_modules
                  = Cardinality({n \in Subdirectories : r.modules[n].valid})
            /\ r.valid <=> (r.info.total_modules >= 1 /\ r.info.invalid_modules = 0)

\* C12 witness: a hidden directory beside two module folders, one of them
\* broken: total 2, valid 1, invalid 1, and the course is not valid.
C12_Witness ==
    /\ c_pc = "returned"
    /\ course.kind = "dir"
    /\ Len(course.listing) = 3
    /\ ".git" \in Range(course.listing) /\ course.entry[".git"].kind = "dir"
    /\ c_result[1].info.total_modules = 2
    /\ c_result[1].info.valid_modules = 1
    /\ c_result[1].info.invalid_modules = 1
    /\ ~c_result[1].valid

(***************************************************************************)
(* Module combiner, scripts/utils/file_manager.py                          *)
(***************************************************************************)

\* Text that is only whitespace.
Ws == " "

\* str.find: the position of the first occurrence, 0 when there is none
\* (positions count from 1).
Find(text, m) ==
    IF Contains(text, m)
    THEN CHOOSE k \in 1 .. Len(text) :
            text[k] = m /\ \A j \in 1 .. k - 1 : text[j] # m
    ELSE 0

\* A slice text[from:to] of positions from .. to, empty when to < from.
Slice(text, from, to) == IF to < from THEN << >> ELSE SubSeq(text, from, to)

\* str.strip: the whitespace at both ends taken away.
Strip(text) ==
    LET solid == {k \in 1 .. Len(text) : text[k] # Ws}
    IN  IF solid = {} THEN << >>
        ELSE Slice(text,
                   CHOOSE k \in solid : \A j \in solid : k <= j,
                   CHOOSE k \in solid : \A j \in solid : j <= k)

\* Mutant: the text from the start of the file up to the end marker.
extract_document_content_KeepsPreamble(text) ==
    LET begin_idx == Find(text, BeginDoc)
        end_idx   == Find(text, EndDoc)
    IN  IF begin_idx # 0 /\ end_idx # 0
        THEN Strip(Slice(text, 1, end_idx - 1))
        ELSE text

\* _extract_document_content
extract_document_content(text) ==
    LET begin_idx == Find(text, BeginDoc)
        end_idx   == Find(text, EndDoc)
    IN  IF begin_idx # 0 /\ end_idx # 0
        THEN Strip(Slice(text, begin_idx + 1, end_idx - 1))
        ELSE text

\* module_path.stem.replace('_', ' ').title() for the module paths.
SectionTitle(p) ==
    CASE p = "intro" -> "Intro"
      [] p = "adv_topics" -> "Adv Topics"
      [] p = "labs" -> "Labs"

\* The file combine_modules reads for the entry e: for a directory the first
\* listed file named main.tex or module.tex, else the first listed file, else
\* none; for anything else the path itself.
tex_file(e) ==
    IF IsDir(e) THEN
        LET tex_files  == e.listing
            main_files == SelectSeq(tex_files, LAMBDA f : f \in {MainTex, ModuleTex})
        IN  IF main_files # << >> THEN main_files[1]
            ELSE IF tex_files # << >> THEN tex_files[1]
            ELSE None
    ELSE "self"

\* Mutant: a file that cannot be read ends the combination.
OnReadError_Raise == "raise"

\* except Exception as e: self.logger.error(...); continue
OnReadError == "skip"

\* Mutant: the new block is put in front of the combined content.
AppendBlock_InFront(content, block) == << block >> \o content

\* combined_content += section heading; combined_content += content + "\n\n"
AppendBlock(content, block) == Append(content, block)

\* One iteration of the loop over module_paths, for the path p with e on disk:
\* st holds the combined content so far, the history, and whether an exception
\* left the loop.
module_step(st, p, e) ==
    LET file == tex_file(e)
        skip == [st EXCEPT !.log = Append(@, [file |-> file, outcome |-> "skipped"])]
    IN  IF file = None THEN skip
        ELSE IF ~Exists(e) THEN skip
        ELSE IF e.text[file] = Unreadable THEN
            IF OnReadError = "skip" THEN skip
            ELSE [st EXCEPT !.aborted = TRUE,
                            !.log = Append(@, [file |-> file, outcome |-> "raised"])]
        ELSE [st EXCEPT
                !.content = AppendBlock(@, [title |-> SectionTitle(p),
                                            body |-> extract_document_content(e.text[file])]),
                !.log = Append(@, [file |-> file, outcome |-> "appended"])]

\* The loop over module_paths from position k on.
RECURSIVE combine_loop(_, _, _, _)
combine_loop(st, paths, disk, k) ==
    IF k > Len(paths) \/ st.aborted THEN st
    ELSE combine_loop(module_step(st, paths[k], disk[paths[k]]), paths, disk, k + 1)

\* The packages create_latex_document includes by default.
DefaultPackages ==
    << "inputenc{utf8}", "fontenc{T1}", "geometry{margin=1in}", "hyperref",
       "graphicx", "amsmath", "amsfonts", "listings", "xcolor" >>

\* The file name the callers pass (build_course.py:285, and the default), and the path
\* create_latex_document writes: the name in the working directory, with
\* .tex added when the name has no suffix.
OutputFilenames == {"combined_course.tex"}
OutputPath(filename) ==
    << "temp", IF filename = "combined" THEN "combined.tex" ELSE filename >>

\* create_latex_document(content, filename): the document written.
create_latex_document(content, filename) ==
    [path |-> OutputPath(filename), document_class |-> "article",
     packages |-> DefaultPackages, body |-> content]

\* combine_modules(module_paths, output_filename) on the disk `disk`: the loop,
\* then the document handed to create_latex_document.
combine_modules(paths, filename, disk) ==
    LET st == combine_loop([content |-> << >>, log |-> << >>, aborted |-> FALSE],
                           paths, disk, 1)
    IN  [aborted |-> st.aborted, log |-> st.log,
         doc |-> create_latex_document(st.content, filename)]

\* The files of a module are all readable or all unreadable; a readable file's
\* text is a complete document whose body names the file.
FileText(f, readable) ==
    IF readable THEN << DocClass, BeginDoc, Ws, f, Ws, EndDoc, Ws >>
    ELSE Unreadable

\* The listings of at most MaxListing files, in every order.
Listings ==
    UNION {{l \in [1 .. n -> TexFiles] :
                \A a, b \in 1 .. n : a # b => l[a] # l[b]} : n \in 0 .. MaxListing}

\* What can be at a module path that combine_modules is given.
CombinedEntries ==
    {Absent}
    \cup {RegularFile(t) : t \in {Unreadable, << "self" >>}}
    \cup {Directory(l, [f \in FileKeys |->
                            IF f \in Range(l) THEN FileText(f, r) ELSE << >>],
                    {}, "absent", FALSE) :
            l \in Listings, r \in BOOLEAN}

\* The module paths combine_modules is given.
CombinedPaths == {"intro", "adv_topics"}
PathLists == UNION {[1 .. n -> CombinedPaths] : n \in 0 .. MaxModules}

InitCombine ==
    /\ module_paths \in PathLists
    /\ output_filename \in OutputFilenames
    /\ \E on \in [Range(module_paths) -> CombinedEntries] :
            fs = [p \in Paths |-> IF p \in DOMAIN on THEN on[p] ELSE Absent]
    /\ cb_pc = "start"
    /\ cb_log = << >>
    /\ document = << >>
    /\ cb_return = << >>
    /\ CompileIdle
    /\ ValidateIdle
    /\ CourseIdle
    /\ MergerIdle
    /\ LaterIdle

\* combine_modules runs: the loop over module_paths, then
\* create_latex_document, whose write succeeds or raises.
CombineModules ==
    /\ cb_pc = "start"
    /\ LET r == combine_modules(module_paths, output_filename, fs)
       IN  /\ cb_log' = r.log
           /\ \E written \in BOOLEAN :
                IF ~r.aborted /\ written
                THEN /\ document' = << r.doc >>
                     /\ cb_return' = r.doc.path
                     /\ cb_pc' = "returned"
                ELSE /\ UNCHANGED << document, cb_return >>
                     /\ cb_pc' = "raised"
    /\ UNCHANGED << compileVars, fs, validateVars, courseVars, module_paths,
                    output_filename, mergerVars,
                    laterVars >>

NextCombine == CombineModules

SpecCombine == InitCombine /\ [][NextCombine]_vars

Reverse(seq) == [k \in 1 .. Len(seq) |-> seq[Len(seq) + 1 - k]]

\* The module at e can supply a body: the file combine_modules takes for it is
\* there and can be read.
CanSupplyBody(e) ==
    /\ Exists(e)
    /\ tex_file(e) # None
    /\ e.text[tex_file(e)] # Unreadable

\* The section headings of a document body, in order.
Titles(body) == [k \in 1 .. Len(body) |-> body[k].title]

\* C4: the sections of the document combine_modules writes are those of the
\* module paths that were not skipped, in the caller's order, whatever order
\* the directories list their files in; the reversed list gives the reversed
\* sections.
C4_SectionOrderIsCallerOrder ==
    cb_pc = "returned" =>
        LET kept == SelectSeq(module_paths, LAMBDA p : CanSupplyBody(fs[p]))
        IN  /\ Titles(document[1].body) = [k \in 1 .. Len(kept) |-> SectionTitle(kept[k])]
            /\ combine_modules(Reverse(module_paths), output_filename, fs).doc.body
                   = Reverse(document[1].body)

\* C4 witness: three module paths, two different modules among them, all
\* included: the sections are in the caller's order.
C4_Witness ==
    /\ cb_pc = "returned"
    /\ module_paths = << "adv_topics", "intro", "adv_topics" >>
    /\ Titles(document[1].body) = << "Adv Topics", "Intro", "Adv Topics" >>

\* C5: one module never aborts combine_modules: every module path is
\* processed, a path that cannot supply a body is skipped and every other one
\* is appended, and only the write of the document itself can raise; when it
\* does not, the document is written with one section per appended module
\* (none when all were skipped) and its path is returned.
C5_SkippedModulesNeverAbort ==
    cb_pc \in {"returned", "raised"} =>
        /\ Len(cb_log) = Len(module_paths)
        /\ \A k \in 1 .. Len(cb_log) :
              cb_log[k].outcome =
                  IF CanSupplyBody(fs[module_paths[k]]) THEN "appended" ELSE "skipped"
        /\ cb_pc = "returned" =>
              /\ Len(document) = 1
              /\ cb_return = document[1].path
              /\ Len(document[1].body)
                    = Cardinality({k \in 1 .. Len(cb_log) : cb_log[k].outcome = "appended"})

\* C5 witness: the second of three modules cannot be read and is skipped, the
\* first and the third are in the document that was written.
C5_Witness ==
    /\ cb_pc = "returned"
    /\ Len(module_paths) = 3
    /\ Exists(fs[module_paths[2]]) /\ ~CanSupplyBody(fs[module_paths[2]])
    /\ cb_log[1].outcome = "appended"
    /\ cb_log[2].outcome = "skipped"
    /\ cb_log[3].outcome = "appended"
    /\ Len(document[1].body) = 2

\* C6 as claimed: for a module directory combine_modules reads the file
\* validate_module selects as primary file, and finds no file to read exactly
\* when validate_module reports the missing primary file.
C6_SamePrimaryFileAsValidator ==
    cb_pc \in {"returned", "raised"} =>
        \A k \in 1 .. Len(cb_log) :
            LET e == fs[module_paths[k]]
                v == validate_module(module_paths[k], e)
            IN  IsDir(e) =>
                    /\ cb_log[k].file = main_tex_file(module_paths[k], e)
                    /\ (cb_log[k].file = None)
                          <=> (\E j \in 1 .. Len(v.errors) :
                                    v.errors[j] = ErrNoMain(module_paths[k]))

(***************************************************************************)
(* Compiler driver, scripts/utils/latex_compiler.py                        *)
(***************************************************************************)

\* The driver's own working directory (self.temp_dir) and a caller's directory.
Dirs == {"temp", "out"}

\* What launching `<compiler> --version` can do: exit with status zero or not,
\* fail because the executable is absent, exceed the 10 s timeout, or fail to
\* launch with another OSError (PermissionError, ...).
ProbeOutcomes == {"exit0", "exit_nonzero", "not_found", "timeout", "os_error"}

\* What the compile subprocess can do: exit with status zero or not, exceed the
\* 300 s timeout, or fail to launch.
RunOutcomes == {"exit0", "exit_nonzero", "timeout", "os_error"}

\* What the compiler, a black box, does to <stem>.pdf in the output directory.
PdfEffects == {"none", "write", "remove"}

\* os.makedirs(output_directory, exist_ok=True) on a directory that is absent.
MkdirOutcomes == {"ok", "os_error"}

\* str(pdf_path): <output_directory>/<stem>.pdf
PdfPath(dir) == IF dir = "temp" THEN "temp/document.pdf" ELSE "out/document.pdf"

\* Mutant: a failure that keeps the path of the PDF and has no message.
Failure_WithPath(err, withLog) ==
    [success |-> FALSE, error |-> NoKey, output_path |-> PdfPath("temp"),
     log |-> IF withLog THEN "stdout" ELSE NoKey]

\* The dictionaries compile_tex_file returns.
Failure(err, withLog) ==
    [success |-> FALSE, error |-> err, output_path |-> None,
     log |-> IF withLog THEN "stdout" ELSE NoKey]

Success(dir) ==
    [success |-> TRUE, error |-> NoKey, output_path |-> PdfPath(dir),
     log |-> "stdout"]

\* check_latex_installation: the returned boolean (the launch failures that
\* are not caught leave the function as an exception, see ProbeRaises).
check_latex_installation(probe) ==
    IF probe \in {"timeout", "not_found"} THEN FALSE ELSE probe = "exit0"

\* except (subprocess.TimeoutExpired, FileNotFoundError): any other launch
\* failure propagates.
ProbeRaises(probe) == probe = "os_error"

\* output_directory = output_dir or self.temp_dir
OutputDirectory(odir) == IF odir = None THEN "temp" ELSE odir

\* Mutant: the compiler is taken to be installed whatever the probe says.
CompilerMissing_Never(installed) == FALSE

\* if not self.check_latex_installation(): return the failure
CompilerMissing(installed) == ~installed

\* Mutant: trust the exit status alone.
CompileSucceeded_ExitOnly(returncode, pdf_after) == returncode = 0

\* if result.returncode == 0 and pdf_path.exists()
CompileSucceeded(returncode, pdf_after) == returncode = 0 /\ pdf_after

\* Mutant: only an artifact written by this run counts.
PdfAfter_FreshOnly(before, run, effect) == run # "os_error" /\ effect = "write"

\* The subprocess's effect on the artifact.
PdfAfter(before, run, effect) ==
    IF run = "os_error" THEN before
    ELSE IF effect = "write" THEN TRUE
    ELSE IF effect = "remove" THEN FALSE
    ELSE before

\* compile_tex_file(tex_file, output_dir) on a disk (tex, dirs, pdfs) with the
\* environment's answers (probe, mk, run, effect): whether it raised, the
\* result it returned, the disk afterwards, the subprocesses it spawned, how
\* the compile subprocess ended (ran) and whether the artifact is in the
\* output directory when the function is left (pdf_after).
compile_tex_file(tex, dirs, pdfs, odir, probe, mk, run, effect) ==
    LET d == OutputDirectory(odir)
        same == [dirs |-> dirs, pdfs |-> pdfs, ran |-> "not_run",
                 pdf_after |-> pdfs[d]]
    IN  IF ~tex THEN
            [raised |-> FALSE, result |-> Failure("not_found", FALSE),
             spawned |-> << >>] @@ same
        ELSE IF ProbeRaises(probe) THEN
            [raised |-> TRUE, result |-> None, spawned |-> << "probe" >>] @@ same
        ELSE IF CompilerMissing(check_latex_installation(probe)) THEN
            [raised |-> FALSE, result |-> Failure("no_compiler", FALSE),
             spawned |-> << "probe" >>] @@ same
        ELSE IF ~dirs[d] /\ mk = "os_error" THEN
            [raised |-> TRUE, result |-> None, spawned |-> << "probe" >>] @@ same
        ELSE
            LET dirs2 == [dirs EXCEPT ![d] = TRUE]
                after == PdfAfter(pdfs[d], run, effect)
                pdfs2 == [pdfs EXCEPT ![d] = after]
                res   == IF run = "timeout" THEN Failure("timeout", FALSE)
                         ELSE IF run = "os_error" THEN Failure("exception", FALSE)
                         ELSE IF CompileSucceeded(IF run = "exit0" THEN 0 ELSE 1, after)
                              THEN Success(d)
                         ELSE Failure("failed", TRUE)
            IN  [raised |-> FALSE, result |-> res, dirs |-> dirs2, pdfs |-> pdfs2,
                 spawned |-> << "probe", "compile" >>, ran |-> run,
                 pdf_after |-> after]

\* Mutant: the loop does not stop at a failing pass.
BreakOnFailure_Never(res) == FALSE

\* if not result['success']: break
BreakOnFailure(res) == ~res.success

\* Mutant: one pass too few.
LoopContinues_OffByOne(i, n) == i + 1 < n

\* for i in range(passes)
LoopContinues(i, n) == i < n

InitCompile ==
    /\ tex_exists \in BOOLEAN
    /\ dir_exists \in [Dirs -> BOOLEAN]
    /\ dir_exists["temp"]
    /\ pdf_exists \in [Dirs -> BOOLEAN]
    /\ \A d \in Dirs : pdf_exists[d] => dir_exists[d]
    /\ output_dir \in {None, "out"}
    /\ passes \in -1 .. MaxPasses
    /\ cm_pc = "start"
    /\ cm_i = 0
    /\ cm_result = None
    /\ calls = << >>
    /\ procs = << >>
    /\ fs = NoModules
    /\ ValidateIdle
    /\ CombineIdle
    /\ CourseIdle
    /\ MergerIdle
    /\ LaterIdle

\* compile_multiple_passes is entered: result = None, and the for loop is
\* reached.
CompileMultiplePassesEnter ==
    /\ cm_pc = "start"
    /\ cm_result' = None
    /\ cm_i' = 0
    /\ cm_pc' = IF LoopContinues(0, passes) THEN "loop" ELSE "returned"
    /\ UNCHANGED << tex_exists, dir_exists, pdf_exists, output_dir, passes,
                    calls, procs, fs, validateVars, courseVars,
                    combineVars, mergerVars,
                    laterVars >>

\* One iteration of the loop: result = self.compile_tex_file(tex_file,
\* output_dir), then the break test and the loop test.
CompilePass ==
    /\ cm_pc = "loop"
    /\ \E probe \in ProbeOutcomes, mk \in MkdirOutcomes,
          run \in RunOutcomes, effect \in PdfEffects :
        LET r == compile_tex_file(tex_exists, dir_exists, pdf_exists, output_dir,
                                  probe, mk, run, effect)
        IN  /\ dir_exists' = r.dirs
            /\ pdf_exists' = r.pdfs
            /\ procs' = procs \o r.spawned
            /\ calls' = Append(calls, [tex |-> "tex_file", dir |-> output_dir,
                                       raised |-> r.raised, result |-> r.result,
                                       ran |-> r.ran, pdf_after |-> r.pdf_after,
                                       source |-> tex_exists, probe |-> probe,
                                       spawned |-> r.spawned,
                                       dirs_before |-> dir_exists,
                                       dirs_after |-> r.dirs,
                                       pdf_before |->
                                           pdf_exists[OutputDirectory(output_dir)],
                                       effect |-> IF r.ran \in {"not_run", "os_error"}
                                                  THEN "none" ELSE effect])
            /\ cm_i' = cm_i + 1
            /\ IF r.raised
               THEN /\ cm_pc' = "raised"
                    /\ UNCHANGED cm_result
               ELSE /\ cm_result' = r.result
                    /\ cm_pc' = IF BreakOnFailure(r.result) THEN "returned"
                                ELSE IF LoopContinues(cm_i + 1, passes) THEN "loop"
                                ELSE "returned"
    /\ UNCHANGED << tex_exists, output_dir, passes, fs, validateVars,
                    courseVars, combineVars, mergerVars,
                    laterVars >>

NextCompile == CompileMultiplePassesEnter \/ CompilePass

SpecCompile == InitCompile /\ [][NextCompile]_vars

\* The invocations of compile_tex_file that returned a result.
Returned(k) == ~calls[k].raised

\* C1: compile_tex_file reports success only when the compile subprocess
\* exited with status zero and <stem>.pdf is in the output directory after the
\* run; whenever the artifact is absent the result is a failure, also after a
\* zero exit status.
C1_SuccessNeedsExitZeroAndArtifact ==
    \A k \in 1 .. Len(calls) :
        Returned(k) =>
            /\ calls[k].result.success =>
                    /\ calls[k].ran = "exit0"
                    /\ calls[k].pdf_after
                    /\ calls[k].result.output_path
                         = PdfPath(OutputDirectory(calls[k].dir))
            /\ ~calls[k].pdf_after => ~calls[k].result.success

\* C1 witness: the compiler exited with status zero, wrote nothing, and the
\* result is a failure.
C1_Witness ==
    \E k \in 1 .. Len(calls) :
        /\ Returned(k)
        /\ calls[k].ran = "exit0"
        /\ ~calls[k].pdf_after
        /\ ~calls[k].result.success

\* C2: compile_multiple_passes is fail-fast: a failing pass k is the last
\* invocation (exactly k invocations are made, none after it) and its failure
\* result is the one returned.
C2_FailFast ==
    \A k \in 1 .. Len(calls) :
        (Returned(k) /\ ~calls[k].result.success) =>
            /\ k = Len(calls)
            /\ k <= passes
            /\ cm_i = k
            /\ cm_pc = "returned"
            /\ cm_result = calls[k].result

\* C2 witness: three passes asked for, the second one fails, the call has
\* returned.
C2_Witness ==
    /\ passes = 3
    /\ cm_pc = "returned"
    /\ Len(calls) = 2
    /\ Returned(1) /\ calls[1].result.success
    /\ Returned(2) /\ ~calls[2].result.success

\* Every invocation so far returned a success.
AllSucceeded ==
    \A k \in 1 .. Len(calls) : Returned(k) /\ calls[k].result.success

\* C3: for passes >= 1, while every pass succeeds the loop goes on until
\* exactly `passes` invocations were made, all on the same source and output
\* directory, and then returns the result of the last one.
C3_AllPassesRun ==
    (passes >= 1 /\ cm_pc # "start" /\ AllSucceeded) =>
        /\ Len(calls) <= passes
        /\ Len(calls) < passes => cm_pc = "loop"
        /\ Len(calls) = passes =>
                /\ cm_pc = "returned"
                /\ cm_result = calls[passes].result
        /\ \A k \in 1 .. Len(calls) :
                calls[k].tex = "tex_file" /\ calls[k].dir = output_dir

\* C3 witness: three passes asked for, three successful invocations, returned.
C3_Witness ==
    /\ passes = 3
    /\ cm_pc = "returned"
    /\ Len(calls) = 3
    /\ AllSucceeded

\* C18: every result compile_tex_file returns, on every path, has an
\* output_path that is not None exactly when success is true, and an error
\* message exactly when success is false.
C18_ResultShape ==
    \A k \in 1 .. Len(calls) :
        Returned(k) =>
            /\ (calls[k].result.output_path # None) <=> calls[k].result.success
            /\ (calls[k].result.error # NoKey) <=> ~calls[k].result.success

\* The paths on which the k-th invocation returned: by its error, or success.
ReturnPath(k) ==
    IF calls[k].result.success THEN "success" ELSE calls[k].result.error

\* C18 witness: a failure of the compile subprocess, returned with an error
\* and no output_path, after a pass that returned a success with its path.
C18_Witness ==
    /\ Len(calls) >= 2
    /\ Returned(1) /\ ReturnPath(1) = "success"
    /\ calls[1].result.output_path = PdfPath(OutputDirectory(output_dir))
    /\ Returned(2) /\ ReturnPath(2) \in {"failed", "timeout", "exception"}
    /\ calls[2].result.output_path = None

\* The probe outcomes for which check_latex_installation returns False.
NotDetected == {"exit_nonzero", "not_found", "timeout"}

\* C19: the preconditions come before any compilation: with the source file
\* missing compile_tex_file returns a failure and spawns no subprocess at
\* all; with the compiler not detected it returns a failure without running
\* the compile command and without creating the output directory.
C19_PreconditionsFirst ==
    \A k \in 1 .. Len(calls) :
        /\ ~calls[k].source =>
              /\ Returned(k) /\ ~calls[k].result.success
              /\ calls[k].spawned = << >>
              /\ calls[k].dirs_after = calls[k].dirs_before
        /\ (calls[k].source /\ calls[k].probe \in NotDetected) =>
              /\ Returned(k) /\ ~calls[k].result.success
              /\ calls[k].spawned = << "probe" >>
              /\ calls[k].ran = "not_run"
              /\ calls[k].dirs_after = calls[k].dirs_before

\* C19 witness: the source is there, the compiler is not found, and the
\* output directory that was asked for is still absent.
C19_Witness ==
    \E k \in 1 .. Len(calls) :
        /\ calls[k].source
        /\ calls[k].probe = "not_found"
        /\ calls[k].dir = "out"
        /\ ~calls[k].dirs_before["out"]
        /\ ~dir_exists["out"]
        /\ Returned(k) /\ calls[k].result.error = "no_compiler"

\* C27: the artifact check looks only at whether <stem>.pdf is in the output
\* directory after the run: when it was there before the invocation and the
\* compiler exits with status zero without touching it, the result is a
\* success whose output_path is that file.
C27_StaleArtifactCounts ==
    \A k \in 1 .. Len(calls) :
        (/\ Returned(k)
         /\ calls[k].pdf_before
         /\ calls[k].ran = "exit0"
         /\ calls[k].effect = "none") =>
            /\ calls[k].result.success
            /\ calls[k].result.output_path = PdfPath(OutputDirectory(calls[k].dir))

\* C27 witness: the first pass writes the PDF, the second exits with status
\* zero and writes nothing, and the second result is a success with the path
\* of the first pass's file.
C27_Witness ==
    /\ Len(calls) >= 2
    /\ Returned(1) /\ ~calls[1].pdf_before /\ calls[1].effect = "write"
    /\ Returned(2) /\ calls[2].pdf_before /\ calls[2].ran = "exit0"
    /\ calls[2].effect = "none"
    /\ calls[2].result.success
    /\ calls[2].result.output_path = PdfPath(OutputDirectory(calls[2].dir))

\* C28 as claimed: compile_multiple_passes returns a compilation result with
\* a boolean success field for every value of passes, zero and negative
\* values included: a returned call has a result, that of its last
\* invocation of compile_tex_file.
C28_AlwaysReturnsResult ==
    cm_pc = "returned" =>
        /\ Len(calls) >= 1
        /\ cm_result = calls[Len(calls)].result
        /\ cm_result.success \in BOOLEAN

\* C20 as claimed: whatever the outcome of launching the version probe,
\* check_latex_installation returns a boolean and raises nothing, so that
\* compile_tex_file returns a result; for every outcome but a zero exit status
\* that result is a failure.
C20_ProbeNeverRaises ==
    \A k \in 1 .. Len(calls) :
        (calls[k].source /\ calls[k].probe # "exit0") =>
            /\ ~ProbeRaises(calls[k].probe)
            /\ Returned(k)
            /\ ~calls[k].result.success

(***************************************************************************)
(* PDF merger, scripts/utils/pdf_merger.py                                 *)
(***************************************************************************)

\* The paths the merger is given, and the path it writes.
PdfNames == {"a.pdf", "b.PDF", "corrupt.pdf", "missing.pdf", "notes.txt"}
OutputPdf == "merged.pdf"

\* Path.suffix, str.lower and Path.stem on these paths.
Suffix(name) ==
    CASE name = "a.pdf" -> ".pdf"
      [] name = "b.PDF" -> ".PDF"
      [] name = "corrupt.pdf" -> ".pdf"
      [] name = "missing.pdf" -> ".pdf"
      [] name = "notes.txt" -> ".txt"
      [] name = "merged.pdf" -> ".pdf"
Lower(s) == IF s = ".PDF" THEN ".pdf" ELSE s
Stem(name) ==
    CASE name = "a.pdf" -> "a"
      [] name = "b.PDF" -> "b"
      [] name = "corrupt.pdf" -> "corrupt"
      [] name = "missing.pdf" -> "missing"
      [] name = "notes.txt" -> "notes"
      [] name = "merged.pdf" -> "merged"

\* A file on disk: whether PyPDF2 can parse it, its size in bytes, its pages
\* and its outline (the bookmarks in it).
PdfFile(parses, size, pages, outline) ==
    [exists |-> TRUE, parses |-> parses, size |-> size, pages |-> pages,
     outline |-> outline]
NoPdfFile ==
    [exists |-> FALSE, parses |-> FALSE, size |-> 0, pages |-> << >>,
     outline |-> << >>]

\* The disk the merger starts on: two documents, a file named .pdf that is no
\* PDF document, a path with nothing at it, a text file, and no output yet.
InitialPdfs ==
    [n \in PdfNames \cup {OutputPdf} |->
        CASE n = "a.pdf" -> PdfFile(TRUE, 20, << "a1", "a2" >>, << >>)
          [] n = "b.PDF" -> PdfFile(TRUE, 10, << "b1" >>, << >>)
          [] n = "corrupt.pdf" -> PdfFile(FALSE, 5, << >>, << >>)
          [] n = "notes.txt" -> PdfFile(FALSE, 3, << >>, << >>)
          [] OTHER -> NoPdfFile]

\* The backend names a caller passes: the three documented ones and one that
\* is none of them.
Backends == {"auto", "pypdf2", "reportlab", "fitz"}

\* PDFMerger.__init__: the backend that is used.
negotiate(req, has_pypdf2, has_reportlab) ==
    LET auto == IF req # "auto" THEN req
                ELSE IF has_pypdf2 THEN "pypdf2"
                ELSE IF has_reportlab THEN "reportlab"
                ELSE "none"
        full == IF auto = "pypdf2" /\ ~has_pypdf2
                THEN (IF has_reportlab THEN "reportlab" ELSE "none")
                ELSE auto
    IN  IF full = "reportlab" /\ ~has_reportlab THEN "none" ELSE full

\* is_available()
is_available(b) == b # "none"

\* The error messages of the merger's results.
ErrNoLibrary == "No PDF processing library available. Install PyPDF2 or ReportLab."
ErrNoValidFiles == "No valid PDF files to merge"
ErrNoBackend == "No supported PDF backend available"
ErrNeedsPyPDF2 == "PyPDF2 required for bookmark functionality"
ErrException == "str(e)"
WarnCoverOnly == "Only cover page created. Install PyPDF2 for full merging."

\* The dictionaries merge_pdfs returns (NoKey: the dictionary has no such key).
MergeFailure(err) ==
    [success |-> FALSE, error |-> err, output_path |-> None,
     files_merged |-> NoKey, backend |-> NoKey, warning |-> NoKey]
MergeSuccess(n, b, warning) ==
    [success |-> TRUE, error |-> NoKey, output_path |-> OutputPdf,
     files_merged |-> n, backend |-> b, warning |-> warning]

\* Mutant: the extension is not looked at.
is_valid_pdf_ExistsOnly(name, disk) == disk[name].exists

\* pdf_path.exists() and pdf_path.suffix.lower() == '.pdf'
is_valid_pdf(name, disk) ==
    disk[name].exists /\ Lower(Suffix(name)) = ".pdf"

\* Mutant: the input list is passed on as it is.
valid_files_Unfiltered(pdf_files, disk) == pdf_files

\* The loop that builds valid_files.
valid_files(pdf_files, disk) ==
    SelectSeq(pdf_files, LAMBDA f : is_valid_pdf(f, disk))

\* The bookmarks argument of merge_pdfs: None, or a list of labels.
NoBookmarks == [given |-> FALSE, labels |-> << >>]
BookmarkList(labels) == [given |-> TRUE, labels |-> labels]
\* Python's truth value of the argument: neither None nor the empty list.
Truthy(bookmarks) == bookmarks.given /\ bookmarks.labels # << >>

\* bookmark_name for the k-th file (k counts from 1, i = k - 1):
\*   if bookmarks and i < len(bookmarks): bookmarks[i]
\*   elif not bookmarks: pdf_file.stem
\*   (else it stays None)
bookmark_name(bookmarks, k, file) ==
    IF Truthy(bookmarks) /\ k - 1 < Len(bookmarks.labels) THEN bookmarks.labels[k]
    ELSE IF ~Truthy(bookmarks) THEN Stem(file)
    ELSE None

\* merger.append(str(pdf_file), bookmark=bookmark_name): the file's pages
\* after those already there, and an outline entry at its first page when a
\* name is given; for a file PyPDF2 cannot parse it raises, which the loop
\* logs before it goes on to the next file.
append(merger, file, name, disk) ==
    IF ~disk[file].parses THEN merger
    ELSE [pages |-> merger.pages \o disk[file].pages,
          outline |-> IF name = None THEN merger.outline
                      ELSE Append(merger.outline,
                                  [title |-> name, page |-> Len(merger.pages)])]

\* The loop of _merge_with_pypdf2 from the k-th file on.
RECURSIVE append_loop(_, _, _, _, _)
append_loop(merger, files, bookmarks, disk, k) ==
    IF k > Len(files) THEN merger
    ELSE append_loop(append(merger, files[k],
                            bookmark_name(bookmarks, k, files[k]), disk),
                     files, bookmarks, disk, k + 1)

\* _merge_with_pypdf2(valid_files, output_path, bookmarks): the result and the
\* disk afterwards; out_ok tells whether the output file can be written.
merge_with_pypdf2(files, bookmarks, disk, out_ok) ==
    LET merger == append_loop([pages |-> << >>, outline |-> << >>],
                              files, bookmarks, disk, 1)
    IN  IF out_ok
        THEN [result |-> MergeSuccess(Len(files), "pypdf2", NoKey),
              disk |-> [disk EXCEPT ![OutputPdf] =
                            PdfFile(TRUE, 1, merger.pages, merger.outline)]]
        ELSE [result |-> MergeFailure(ErrException), disk |-> disk]

\* _merge_with_reportlab: a cover page that lists the files.
merge_with_reportlab(files, bookmarks, disk, out_ok) ==
    IF out_ok
    THEN [result |-> MergeSuccess(Len(files), "reportlab", WarnCoverOnly),
          disk |-> [disk EXCEPT ![OutputPdf] =
                        PdfFile(TRUE, 1, << "cover" >>, << >>)]]
    ELSE [result |-> MergeFailure(ErrException), disk |-> disk]

\* merge_pdfs(pdf_files, output_path, bookmarks)
merge_pdfs(b, pdf_files, bookmarks, disk, out_ok) ==
    IF ~is_available(b)
    THEN [result |-> MergeFailure(ErrNoLibrary), disk |-> disk]
    ELSE IF valid_files(pdf_files, disk) = << >>
    THEN [result |-> MergeFailure(ErrNoValidFiles), disk |-> disk]
    ELSE IF b = "pypdf2"
    THEN merge_with_pypdf2(valid_files(pdf_files, disk), bookmarks, disk, out_ok)
    ELSE IF b = "reportlab"
    THEN merge_with_reportlab(valid_files(pdf_files, disk), bookmarks, disk, out_ok)
    ELSE [result |-> MergeFailure(ErrNoBackend), disk |-> disk]

\* What writer.add_outline_item(title, page_num) does with a negative page
\* number depends on the PyPDF2 release: it stores the number as it is
\* ("number"), or it indexes the page list with it ("index"), which takes the
\* page counted from the end or raises IndexError.
OutlineAddressing == {"number", "index"}

\* The dictionaries add_bookmarks returns.
BookmarkFailure(err) ==
    [success |-> FALSE, error |-> err, output_path |-> None,
     bookmarks_added |-> NoKey]
BookmarkSuccess(path, n) ==
    [success |-> TRUE, error |-> NoKey, output_path |-> path,
     bookmarks_added |-> n]

\* if page_num < len(writer.pages)
page_in_range(page_num, count) == page_num < count

\* The loop over bookmarks from the k-th on: the outline, and whether
\* add_outline_item raised.
RECURSIVE outline_loop(_, _, _, _, _)
outline_loop(st, bookmarks, count, addressing, k) ==
    IF k > Len(bookmarks) \/ st.raised THEN st
    ELSE
        LET p == bookmarks[k].page
            t == bookmarks[k].title
            next ==
                IF ~page_in_range(p, count) THEN st
                ELSE IF p >= 0 \/ addressing = "number"
                THEN [st EXCEPT !.outline = Append(@, [title |-> t, page |-> p])]
                ELSE IF p >= -count
                THEN [st EXCEPT !.outline = Append(@, [title |-> t, page |-> count + p])]
                ELSE [st EXCEPT !.raised = TRUE]
        IN  outline_loop(next, bookmarks, count, addressing, k + 1)

\* add_bookmarks(pdf_path, bookmarks): the result and the disk afterwards.
add_bookmarks(b, path, bookmarks, disk, addressing, out_ok) ==
    IF ~is_available(b) \/ b # "pypdf2"
    THEN [result |-> BookmarkFailure(ErrNeedsPyPDF2), disk |-> disk]
    ELSE IF ~disk[path].exists \/ ~disk[path].parses
    THEN [result |-> BookmarkFailure(ErrException), disk |-> disk]
    ELSE
        LET st == outline_loop([outline |-> << >>, raised |-> FALSE], bookmarks,
                               Len(disk[path].pages), addressing, 1)
        IN  IF st.raised \/ ~out_ok
            THEN [result |-> BookmarkFailure(ErrException), disk |-> disk]
            ELSE [result |-> BookmarkSuccess(path, Len(bookmarks)),
                  disk |-> [disk EXCEPT ![path].outline = st.outline]]

\* get_pdf_info(pdf_path): the info dictionary (the metadata strings are not
\* modelled); `error` is NoKey unless reading the file raised.
get_pdf_info(b, path, disk) ==
    LET f == disk[path]
    IN  [exists |-> f.exists, path |-> path,
         size |-> f.size,
         pages |-> IF f.exists /\ b = "pypdf2" /\ f.parses THEN Len(f.pages) ELSE 0,
         error |-> IF f.exists /\ b = "pypdf2" /\ ~f.parses THEN ErrException
                   ELSE NoKey]

\* The loop of validate_pdfs from the k-th file on.
RECURSIVE validate_loop(_, _, _, _, _)
validate_loop(results, b, pdf_files, disk, k) ==
    IF k > Len(pdf_files) THEN results
    ELSE
        LET path == pdf_files[k]
            info == get_pdf_info(b, path, disk)
            invalid(err) ==
                [results EXCEPT
                    !.invalid_files = Append(@, [path |-> path, error |-> err])]
            next ==
                IF ~disk[path].exists THEN invalid("File not found")
                ELSE IF Lower(Suffix(path)) # ".pdf" THEN invalid("Not a PDF file")
                ELSE IF info.error # NoKey THEN invalid(info.error)
                ELSE [results EXCEPT
                        !.valid_files = Append(@, info),
                        !.total_pages = @ + info.pages,
                        !.total_size = @ + info.size]
        IN  validate_loop(next, b, pdf_files, disk, k + 1)

\* validate_pdfs(pdf_files)
validate_pdfs(b, pdf_files, disk) ==
    validate_loop([valid_files |-> << >>, invalid_files |-> << >>,
                   total_files |-> Len(pdf_files), total_pages |-> 0,
                   total_size |-> 0],
                  b, pdf_files, disk, 1)

\* The arguments of the model's calls.
InputLists == UNION {[1 .. n -> PdfNames] : n \in 0 .. MaxInputs}
BookmarkArgs ==
    {NoBookmarks}
    \cup {BookmarkList(l) : l \in {<< >>, << "Intro" >>, << "Intro", "Methods" >>}}
BookmarkPages == {-3, -1, 0, 1, 2}
PageBookmarks ==
    UNION {[1 .. n -> {[title |-> "Mark", page |-> p] : p \in BookmarkPages}] :
                n \in 0 .. MaxBookmarks}
BookmarkTargets == {"a.pdf", "missing.pdf"}

InitMerge ==
    /\ HAS_PYPDF2 \in BOOLEAN
    /\ HAS_REPORTLAB \in BOOLEAN
    /\ requested \in Backends
    /\ backend = requested
    /\ m_pc = "new"
    /\ m_call = << >>
    /\ m_result = << >>
    /\ pdf_disk = InitialPdfs
    /\ fs = NoModules
    /\ CompileIdle
    /\ ValidateIdle
    /\ CourseIdle
    /\ CombineIdle
    /\ LaterIdle

\* PDFMerger(backend=requested)
Construct ==
    /\ m_pc = "new"
    /\ backend' = negotiate(requested, HAS_PYPDF2, HAS_REPORTLAB)
    /\ m_pc' = "ready"
    /\ UNCHANGED << compileVars, fs, validateVars, courseVars, combineVars,
                    HAS_PYPDF2, HAS_REPORTLAB, requested, m_call, m_result,
                    pdf_disk,
                    laterVars >>

\* merge_pdfs(pdf_files, OutputPdf, bookmarks)
MergePdfs ==
    /\ m_pc = "ready"
    /\ \E pdf_files \in InputLists, bookmarks \in BookmarkArgs, out_ok \in BOOLEAN :
        LET r == merge_pdfs(backend, pdf_files, bookmarks, pdf_disk, out_ok)
        IN  /\ m_call' = [op |-> "merge_pdfs", pdf_files |-> pdf_files,
                          bookmarks |-> bookmarks, out_ok |-> out_ok]
            /\ m_result' = << r.result >>
            /\ pdf_disk' = r.disk
    /\ m_pc' = "returned"
    /\ UNCHANGED << compileVars, fs, validateVars, courseVars, combineVars,
                    HAS_PYPDF2, HAS_REPORTLAB, requested, backend,
                    laterVars >>

\* add_bookmarks(pdf_path, bookmarks)
AddBookmarks ==
    /\ m_pc = "ready"
    /\ \E path \in BookmarkTargets, bookmarks \in PageBookmarks,
          addressing \in OutlineAddressing, out_ok \in BOOLEAN :
        LET r == add_bookmarks(backend, path, bookmarks, pdf_disk, addressing, out_ok)
        IN  /\ m_call' = [op |-> "add_bookmarks", pdf_path |-> path,
                          bookmarks |-> bookmarks, addressing |-> addressing,
                          out_ok |-> out_ok]
            /\ m_result' = << r.result >>
            /\ pdf_disk' = r.disk
    /\ m_pc' = "returned"
    /\ UNCHANGED << compileVars, fs, validateVars, courseVars, combineVars,
                    HAS_PYPDF2, HAS_REPORTLAB, requested, backend,
                    laterVars >>

\* get_pdf_info(pdf_path)
GetPdfInfo ==
    /\ m_pc = "ready"
    /\ \E path \in PdfNames :
        /\ m_call' = [op |-> "get_pdf_info", pdf_path |-> path]
        /\ m_result' = << get_pdf_info(backend, path, pdf_disk) >>
    /\ m_pc' = "returned"
    /\ UNCHANGED << compileVars, fs, validateVars, courseVars, combineVars,
                    HAS_PYPDF2, HAS_REPORTLAB, requested, backend, pdf_disk,
                    laterVars >>

\* validate_pdfs(pdf_files)
ValidatePdfs ==
    /\ m_pc = "ready"
    /\ \E pdf_files \in InputLists :
        /\ m_call' = [op |-> "validate_pdfs", pdf_files |-> pdf_files]
        /\ m_result' = << validate_pdfs(backend, pdf_files, pdf_disk) >>
    /\ m_pc' = "returned"
    /\ UNCHANGED << compileVars, fs, validateVars, courseVars, combineVars,
                    HAS_PYPDF2, HAS_REPORTLAB, requested, backend, pdf_disk,
                    laterVars >>

NextMerge ==
    Construct \/ MergePdfs \/ AddBookmarks \/ GetPdfInfo \/ ValidatePdfs

SpecMerge == InitMerge /\ [][NextMerge]_vars

\* merge_pdfs has returned.
Merged == m_pc = "returned" /\ m_call.op = "merge_pdfs"

\* The number of inputs that exist and have the .pdf extension, in any case
\* of the letters.
ValidInputs ==
    Cardinality({k \in 1 .. Len(m_call.pdf_files) :
        /\ InitialPdfs[m_call.pdf_files[k]].exists
        /\ Suffix(m_call.pdf_files[k]) \in {".pdf", ".PDF"}})

\* C13: with an available backend merge_pdfs returns the failure 'No valid
\* PDF files to merge' if and only if no input both exists and has the .pdf
\* extension (the empty list included); an invalid input among valid ones
\* never brings that error.
C13_NoValidFilesIffNoneValid ==
    (Merged /\ is_available(backend)) =>
        ((~m_result[1].success /\ m_result[1].error = ErrNoValidFiles)
            <=> ValidInputs = 0)

\* C13 witness: an input that does not exist between two valid ones, and the
\* merge succeeds.
C13_Witness ==
    /\ Merged
    /\ m_call.pdf_files = << "a.pdf", "missing.pdf", "b.PDF" >>
    /\ m_result[1].success
\* merge_pdfs has returned from the degraded backend, for a list with at
\* least one valid input.
DegradedMerge == Merged /\ backend = "reportlab" /\ ValidInputs >= 1

\* The result of a degraded merge that could write its output.
DegradedSuccess(r) ==
    /\ r.success
    /\ r.warning # NoKey
    /\ r.backend = "reportlab"
    /\ r.files_merged = ValidInputs

C15_UnavailableFailsFast ==
    (/\ m_pc = "returned"
     /\ ~HAS_PYPDF2 /\ ~HAS_REPORTLAB
     /\ requested \in {"auto", "pypdf2", "reportlab"}) =>
        /\ ~is_available(backend)
        /\ pdf_disk = InitialPdfs
        /\ m_call.op \in {"merge_pdfs", "add_bookmarks"} =>
              ~m_result[1].success /\ m_result[1].error # NoKey
        /\ m_call.op = "get_pdf_info" => m_result[1].error # NoKey
        /\ m_call.op = "validate_pdfs" =>
              /\ m_result[1].valid_files = << >>
              /\ Len(m_result[1].invalid_files) = Len(m_call.pdf_files)
\* merge_pdfs has returned a success from the full-merge backend, and PyPDF2
\* could parse every valid input.
FullMerge ==
    /\ Merged
    /\ backend = "pypdf2"
    /\ m_result[1].success
    /\ \A k \in 1 .. Len(m_call.pdf_files) :
          (InitialPdfs[m_call.pdf_files[k]].exists
                /\ Suffix(m_call.pdf_files[k]) \in {".pdf", ".PDF"})
            => InitialPdfs[m_call.pdf_files[k]].parses

\* The inputs that exist and have the .pdf extension, in input order.
ValidInputList ==
    SelectSeq(m_call.pdf_files,
              LAMBDA f : InitialPdfs[f].exists /\ Suffix(f) \in {".pdf", ".PDF"})

\* The pages of the files of a list, one file after the other.
RECURSIVE PagesOf(_)
PagesOf(files) ==
    IF files = << >> THEN << >>
    ELSE InitialPdfs[Head(files)].pages \o PagesOf(Tail(files))

\* C16 as claimed: the full-merge backend appends the valid inputs in input
\* order and attaches exactly one bookmark per input: the caller's label at
\* the input's index when the bookmarks list has one, else the input's base
\* name, also when the list is non-empty but shorter than the input list.
C16_OneBookmarkPerInput ==
    FullMerge =>
        LET out == pdf_disk[OutputPdf]
            labels == m_call.bookmarks.labels
        IN  /\ out.pages = PagesOf(ValidInputList)
            /\ Len(out.outline) = Len(ValidInputList)
            /\ \A k \in 1 .. Len(ValidInputList) :
                  /\ k <= Len(out.outline)
                  /\ out.outline[k].title =
                        IF k <= Len(labels) THEN labels[k]
                        ELSE Stem(ValidInputList[k])
\* add_bookmarks has returned.
Bookmarked == m_pc = "returned" /\ m_call.op = "add_bookmarks"

\* The bookmarks of the call whose page index p satisfies 0 <= p < count.
InRangeBookmarks(count) ==
    SelectSeq(m_call.bookmarks, LAMBDA bm : 0 <= bm.page /\ bm.page < count)

\* C17 as claimed: with the full-merge backend add_bookmarks copies the pages
\* unchanged and attaches exactly the bookmarks with 0 <= p < page count, the
\* others (too large or negative) being ignored without an error; with any
\* other backend it returns the failure that names PyPDF2 and leaves the file
\* as it was.  (Stated for a file that can be read and written.)
C17_OutOfRangeBookmarksIgnored ==
    Bookmarked =>
        IF backend = "pypdf2"
        THEN (InitialPdfs[m_call.pdf_path].parses /\ m_call.out_ok) =>
                LET before == InitialPdfs[m_call.pdf_path]
                    after  == pdf_disk[m_call.pdf_path]
                IN  /\ m_result[1].success
                    /\ after.pages = before.pages
                    /\ after.outline =
                          [k \in 1 .. Len(InRangeBookmarks(Len(before.pages))) |->
                              [title |-> InRangeBookmarks(Len(before.pages))[k].title,
                               page |-> InRangeBookmarks(Len(before.pages))[k].page]]
        ELSE /\ ~m_result[1].success
             /\ m_result[1].error = ErrNeedsPyPDF2
             /\ pdf_disk = InitialPdfs

(***************************************************************************)
(* Command-line program, scripts/build_course.py main()                    *)
(***************************************************************************)

\* The choices of the `action` argument.
CliActions == {"list", "validate", "single", "build"}

\* What a build (build_single_module, build_custom_course,
\* build_complete_course) hands back to main(): a result with success true,
\* one with success false, or an exception.
BuildOutcomes == {"success", "failure", "raised"}

\* The modules directories the program is run on: none, a regular file, an
\* empty directory, one valid module, a valid and a broken module, and a valid
\* module beside a hidden directory and a file.
CliCourses ==
    {CourseDirectory("absent", << >>, NoEntries),
     CourseDirectory("file", << >>, NoEntries),
     CourseDirectory("dir", << >>, NoEntries),
     CourseDirectory("dir", << "intro" >>,
                     [NoEntries EXCEPT !["intro"] = GoodModule]),
     CourseDirectory("dir", << "labs", "intro" >>,
                     [NoEntries EXCEPT !["intro"] = GoodModule,
                                       !["labs"] = BrokenModule]),
     CourseDirectory("dir", << ".git", "intro", "labs" >>,
                     [NoEntries EXCEPT ![".git"] = BrokenModule,
                                       !["intro"] = BareModule,
                                       !["labs"] = RegularFile(PlainText)])}

\* The entry names in the order sort(key=lambda x: x.name) puts them.
NameOrder == << ".git", "adv_topics", "intro", "labs" >>

\* ModuleValidator.list_modules(course_dir), as the names of the modules
\* listed: the module directories sorted by name (none for a missing
\* directory).
listed_modules(c) ==
    IF c.kind = "absent" THEN << >>
    ELSE SelectSeq(NameOrder, LAMBDA d : d \in Range(module_dirs(c)))

\* CourseBuilder.validate_all_modules(): whether the result's `valid` is true.
validate_all_modules(c) ==
    IF c.kind = "absent" THEN FALSE
    ELSE validate_course_structure(c).valid

\* How main() is left: `failed` tells whether the action reported a failure
\* (an invalid course, a build result with success false, a usage error or an
\* exception), `code` is the exit status: 1 after sys.exit(1), 0 when main()
\* returns.
Exited(failed, code) == [failed |-> failed, code |-> code]

\* main() with the parsed arguments, the modules directory c, whether
\* CourseBuilder(args.config) could be constructed, and the outcome of the
\* build that `single` and `build` start.
main(args, c, ctor_ok, outcome) ==
    IF ~ctor_ok THEN Exited(TRUE, 1)
    ELSE IF args.action \in {"list", "validate"} /\ c.kind = "file"
    THEN Exited(TRUE, 1)
    ELSE IF args.action = "list" THEN Exited(FALSE, 0)
    ELSE IF args.action = "validate"
    THEN Exited(~validate_all_modules(c), 0)
    ELSE IF args.action = "single" /\ args.module = None
    THEN Exited(TRUE, 1)
    ELSE IF outcome = "success" THEN Exited(FALSE, 0)
    ELSE Exited(TRUE, 1)

InitCli ==
    /\ cli_args \in [action : CliActions, module : {None, "intro"},
                     modules : {<< >>, << "intro", "labs" >>}]
    /\ course \in CliCourses
    /\ cli_pc = "start"
    /\ cli_report = << >>
    /\ exit_code = None
    /\ c_pc = "idle"
    /\ c_result = << >>
    /\ fs = NoModules
    /\ CompileIdle
    /\ ValidateIdle
    /\ CombineIdle
    /\ MergerIdle
    /\ MetaIdle
    /\ TailIdle

\* The program runs from the start of main() to the exit of the process.
Main ==
    /\ cli_pc = "start"
    /\ \E ctor_ok \in BOOLEAN, outcome \in BuildOutcomes :
        LET r == main(cli_args, course, ctor_ok, outcome)
        IN  /\ cli_report' = << [failed |-> r.failed, ctor_ok |-> ctor_ok,
                                 outcome |-> outcome] >>
            /\ exit_code' = r.code
    /\ cli_pc' = "exited"
    /\ UNCHANGED << compileVars, fs, validateVars, courseVars, combineVars,
                    mergerVars, cli_args, metaVars, tailVars >>

NextCli == Main

SpecCli == InitCli /\ [][NextCli]_vars

\* C21 as claimed: the program exits with code 0 when the requested action
\* succeeds and with code 1 whenever the action reports a failure, a validate
\* run that reports the course or a module invalid included.
C21_ExitCodeReflectsOutcome ==
    cli_pc = "exited" =>
        exit_code = IF cli_report[1].failed THEN 1 ELSE 0

(***************************************************************************)
(* Metadata refresh, global/scripts/tools/refresh_metadata.py              *)
(***************************************************************************)

\* The tags of the model; the empty string is a tag a caller can pass.
Tags == {"genomics", "linux", "blast"}
EmptyTag == ""

\* The lines of references.bib: the first line of an entry, which carries its
\* key ("@book{key,"), a line that starts with "@" and has no brace, and any
\* other line.
BibEntry(key) == [kind |-> "entry", key |-> key]
BibBareAt == [kind |-> "bare_at", key |-> ""]
BibOther == [kind |-> "other", key |-> ""]

\* The references.bib files of the model: none, an empty one, one and two
\* entries, and one with a line that cannot be split at a brace.
BibFiles ==
    {<< >>,
     << << >> >>,
     << << BibEntry("smith2020"), BibOther >> >>,
     << << BibEntry("smith2020"), BibOther, BibEntry("lee2021"), BibOther >> >>,
     << << BibEntry("smith2020"), BibBareAt >> >>}

\* line.split("{", 1)[1] raises IndexError for a line with no brace.
BibRaises(bib) ==
    bib # << >> /\ \E k \in 1 .. Len(bib[1]) : bib[1][k].kind = "bare_at"

\* extract_bib_keys(bib_path)
extract_bib_keys(bib) ==
    IF bib = << >> THEN << >>
    ELSE LET entries == SelectSeq(bib[1], LAMBDA line : line.kind = "entry")
         IN  [k \in 1 .. Len(entries) |-> entries[k].key]

\* new_tags = [tag for tag in tags if tag and tag not in existing_tags]
new_tags(tags, existing_tags) ==
    SelectSeq(tags, LAMBDA tag : tag # EmptyTag /\ tag \notin Range(existing_tags))

\* The tags argument: None, or a list.
NoTags == [given |-> FALSE, list |-> << >>]
TagList(list) == [given |-> TRUE, list |-> list]

\* adjust_metadata(module_folder, tags=tags, update_references=...) on the
\* metadata mapping md (the title and subtitle arguments are left at None):
\* whether it raised, and the mapping written back.
adjust_metadata(md, bib, tags, update_references) ==
    LET tagged ==
            IF tags.given /\ tags.list # << >>
            THEN [md EXCEPT !.tags = md.tags \o new_tags(tags.list, md.tags)]
            ELSE md
    IN  IF update_references /\ BibRaises(bib)
        THEN [raised |-> TRUE, metadata |-> md]
        ELSE [raised |-> FALSE,
              metadata |-> IF update_references
                           THEN [tagged EXCEPT !.references = extract_bib_keys(bib)]
                           ELSE tagged]

\* The lists of at most MaxTags tags.
TagLists(S) == UNION {[1 .. n -> S] : n \in 0 .. MaxTags}

NoDuplicates(seq) ==
    \A a, b \in 1 .. Len(seq) : a # b => seq[a] # seq[b]

InitMeta ==
    /\ \/ meta_file = << >>
       \/ \E stored \in TagLists(Tags) :
            meta_file = << [title |-> "Module", tags |-> stored,
                            references |-> << "old2019" >>] >>
    /\ bib_file \in BibFiles
    /\ md_call \in [tags : {NoTags} \cup {TagList(l) : l \in TagLists(Tags \cup {EmptyTag})},
                    update_references : BOOLEAN]
    /\ md_before = << >>
    /\ md_pc = "start"
    /\ fs = NoModules
    /\ CompileIdle
    /\ ValidateIdle
    /\ CourseIdle
    /\ CombineIdle
    /\ MergerIdle
    /\ CliIdle
    /\ TailIdle

\* adjust_metadata runs: without metadata.yaml it prints a message and
\* returns; otherwise it rewrites the file, or leaves by an exception.
AdjustMetadata ==
    /\ md_pc = "start"
    /\ md_before' = meta_file
    /\ IF meta_file = << >>
       THEN /\ md_pc' = "returned"
            /\ UNCHANGED meta_file
       ELSE LET r == adjust_metadata(meta_file[1], bib_file, md_call.tags,
                                     md_call.update_references)
            IN  /\ md_pc' = IF r.raised THEN "raised" ELSE "returned"
                /\ meta_file' = << r.metadata >>
    /\ UNCHANGED << compileVars, fs, validateVars, courseVars, combineVars,
                    mergerVars, cliVars, bib_file, md_call, tailVars >>

NextMeta == AdjustMetadata

SpecMeta == InitMeta /\ [][NextMeta]_vars
\* adjust_metadata has rewritten metadata.yaml for a call with a non-empty
\* list of tags, the stored tags having no duplicates.
TagsAdjusted ==
    /\ md_pc = "returned"
    /\ md_before # << >>
    /\ md_call.tags.given /\ md_call.tags.list # << >>
    /\ NoDuplicates(md_before[1].tags)

\* C22 as claimed: after adjust_metadata with a list of tags the stored tags
\* come first in their order, then the requested (non-empty) tags that were
\* not stored, in request order, and no tag occurs twice; with
\* update_references the references are the keys of references.bib.
C22_TagsDeduplicated ==
    TagsAdjusted =>
        LET before == md_before[1].tags
            after  == meta_file[1].tags
            added  == SubSeq(after, Len(before) + 1, Len(after))
        IN  /\ Len(after) >= Len(before)
            /\ SubSeq(after, 1, Len(before)) = before
            /\ Range(added) = (Range(md_call.tags.list) \ {EmptyTag}) \ Range(before)
            /\ \A a, b \in 1 .. Len(added) :
                  a < b =>
                    \E i, j \in 1 .. Len(md_call.tags.list) :
                        /\ i < j
                        /\ md_call.tags.list[i] = added[a]
                        /\ md_call.tags.list[j] = added[b]
            /\ NoDuplicates(after)
            /\ md_call.update_references =>
                  meta_file[1].references = extract_bib_keys(bib_file)

(***************************************************************************)
(* FileManager._extract_document_content, scripts/utils/file_manager.py    *)
(***************************************************************************)

\* The pieces a file content is made of: the two markers, preamble material,
\* whitespace and body text.
ContentPieces == {DocClass, BeginDoc, EndDoc, Ws, "text"}

\* The file contents of at most MaxContent pieces.
Contents == UNION {[1 .. n -> ContentPieces] : n \in 0 .. MaxContent}

InitExtract ==
    /\ latex_content \in Contents
    /\ ex_pc = "start"
    /\ ex_return = << >>
    /\ fs = NoModules
    /\ CompileIdle
    /\ ValidateIdle
    /\ CourseIdle
    /\ CombineIdle
    /\ MergerIdle
    /\ CliIdle
    /\ MetaIdle
    /\ CatalogIdle
    /\ PipelineIdle

\* _extract_document_content runs on latex_content.
ExtractDocumentContent ==
    /\ ex_pc = "start"
    /\ ex_return' = extract_document_content(latex_content)
    /\ ex_pc' = "returned"
    /\ UNCHANGED << compileVars, fs, validateVars, courseVars, combineVars,
                    mergerVars, cliVars, metaVars, latex_content, catalogVars,
                    pipelineVars >>

NextExtract == ExtractDocumentContent

SpecExtract == InitExtract /\ [][NextExtract]_vars

\* The positions of the begin and of the end marker in latex_content (the
\* first of each), and the positions of the text that is not whitespace
\* after the one and before the other.
BeginAt == CHOOSE k \in 1 .. Len(latex_content) :
              latex_content[k] = BeginDoc
                /\ \A j \in 1 .. k - 1 : latex_content[j] # BeginDoc
EndAt == CHOOSE k \in 1 .. Len(latex_content) :
            latex_content[k] = EndDoc
              /\ \A j \in 1 .. k - 1 : latex_content[j] # EndDoc
Enclosed == {k \in BeginAt + 1 .. EndAt - 1 : latex_content[k] # Ws}

\* C24: for a content holding both markers _extract_document_content returns
\* exactly the text after the begin marker and before the end marker, the
\* whitespace around it trimmed, and nothing of the preamble or of what
\* follows the end marker; for a content missing either marker it returns the
\* content unchanged.
C24_ExtractsEnclosedText ==
    ex_pc = "returned" =>
        IF BeginDoc \in Range(latex_content) /\ EndDoc \in Range(latex_content)
        THEN IF Enclosed = {} THEN ex_return = << >>
             ELSE \E lo, hi \in Enclosed :
                    /\ \A k \in Enclosed : lo <= k /\ k <= hi
                    /\ ex_return = SubSeq(latex_content, lo, hi)
        ELSE ex_return = latex_content

\* C24 witness: a preamble, the begin marker, whitespace, body text and the
\* end marker: the body text alone is returned.
C24_Witness ==
    /\ ex_pc = "returned"
    /\ latex_content = << DocClass, BeginDoc, Ws, "text", EndDoc >>
    /\ ex_return = << "text" >>

\* The number of inputs PyPDF2 appended: those that exist, have the .pdf
\* extension and can be parsed.
AppendedInputs ==
    Cardinality({k \in 1 .. Len(m_call.pdf_files) :
        /\ InitialPdfs[m_call.pdf_files[k]].exists
        /\ Suffix(m_call.pdf_files[k]) \in {".pdf", ".PDF"}
        /\ InitialPdfs[m_call.pdf_files[k]].parses})

\* C29 as claimed: with the pypdf2 backend the files_merged count of a
\* successful merge_pdfs result is the number of inputs that were appended to
\* the output; an input whose append failed is not counted.
C29_CountsAppendedFiles ==
    (Merged /\ backend = "pypdf2" /\ m_result[1].success) =>
        m_result[1].files_merged = AppendedInputs

\* C30 as claimed: after construction with any backend argument the backend
\* is one of pypdf2, reportlab and none; pypdf2 only with PyPDF2 installed,
\* reportlab only with ReportLab installed; 'auto' prefers pypdf2; and
\* is_available() holds exactly when merge_pdfs can dispatch to a backend.
C30_BackendResolved ==
    m_pc # "new" =>
        /\ backend \in {"pypdf2", "reportlab", "none"}
        /\ backend = "pypdf2" => HAS_PYPDF2
        /\ backend = "reportlab" => HAS_REPORTLAB
        /\ (requested = "auto" /\ HAS_PYPDF2) => backend = "pypdf2"
        /\ is_available(backend) <=> backend \in {"pypdf2", "reportlab"}

(***************************************************************************)
(* ModuleValidator.get_module_info, scripts/utils/module_validator.py      *)
(***************************************************************************)

\* The directories below the module directory that hold files, as the names
\* from the module directory down (<< >> is the module directory itself).
FileDirs == {<< >>, << "data" >>, << "figures" >>, << "data", "raw" >>}

\* The suffixes of the files.
FileSuffixes == {".tex", ".PDF", ".csv", ".md"}

\* The files that can be below the module directory.
ModuleFiles == [dir : FileDirs, suffix : FileSuffixes]

\* file_path.parent.name, for a file below the module directory "intro".
ParentName(f) == IF f.dir = << >> THEN "intro" ELSE f.dir[Len(f.dir)]

\* The suffixes get_module_info takes for images.
ImageSuffixes == {".png", ".jpg", ".jpeg", ".pdf", ".svg", ".eps", ".gif", ".bmp"}

\* The if/elif chain of the catalog loop: the list the file is appended to.
category(f) ==
    LET ext == Lower(f.suffix)
    IN  IF ext = ".tex" THEN "tex"
        ELSE IF ext \in ImageSuffixes THEN "images"
        ELSE IF ParentName(f) = "data" THEN "data"
        ELSE "other"

\* The lines of a README: a heading that holds the word description, a line
\* of text with blanks around it, and what str.strip makes of a line.  No
\* line of the model holds 'learning objectives', 'prerequisites',
\* 'estimated time' or 'resources'.
DescriptionHeading == "# Description"
TextLine == " About genomes "
StripLine(line) == IF line = TextLine THEN "About genomes" ELSE line

\* The README of the module: none, one that cannot be read, or its lines.
NoReadme == [exists |-> FALSE, readable |-> FALSE, lines |-> << >>]
Readme(readable, lines) == [exists |-> TRUE, readable |-> readable, lines |-> lines]
Readmes ==
    {NoReadme, Readme(FALSE, << >>),
     Readme(TRUE, << DescriptionHeading, TextLine >>),
     Readme(TRUE, << TextLine, DescriptionHeading >>)}

\* _extract_description: the line after the first line that holds
\* 'description' and is not the last line, stripped; else the empty string.
extract_description(lines) ==
    LET found == {i \in 1 .. Len(lines) :
                    lines[i] = DescriptionHeading /\ i + 1 <= Len(lines)}
    IN  IF found = {} THEN ""
        ELSE StripLine(lines[(CHOOSE i \in found : \A j \in found : i <= j) + 1])

\* The `files` dictionary before the catalog loop.
NoFiles == [tex |-> << >>, images |-> << >>, data |-> << >>, other |-> << >>]

\* The catalog loop over the files in the order rglob yields them, from the
\* k-th on.
RECURSIVE catalog_loop(_, _, _)
catalog_loop(files, found, k) ==
    IF k > Len(found) THEN files
    ELSE catalog_loop([files EXCEPT ![category(found[k])] = Append(@, found[k])],
                      found, k + 1)

\* get_module_info(module_path) for the tree at the path; found is the files
\* below it in the order rglob yields them.
get_module_info(tree, found) ==
    LET info == [name |-> "intro", path |-> "modules/intro", exists |-> tree.exists,
                 description |-> "", learning_objectives |-> << >>,
                 prerequisites |-> << >>, estimated_time |-> "",
                 resources |-> << >>, files |-> NoFiles]
    IN  IF ~tree.exists THEN info
        ELSE [info EXCEPT
                !.description = IF tree.readme.exists /\ tree.readme.readable
                                THEN extract_description(tree.readme.lines)
                                ELSE @,
                !.files = catalog_loop(@, found, 1)]

\* The orders in which rglob can yield the files of the set S.
Orders(S) ==
    {o \in [1 .. Cardinality(S) -> S] :
        \A a, b \in 1 .. Cardinality(S) : a # b => o[a] # o[b]}

InitCatalog ==
    /\ \/ module_tree = [exists |-> FALSE, readme |-> NoReadme, files |-> {}]
       \/ \E r \in Readmes, S \in SUBSET ModuleFiles :
            /\ Cardinality(S) <= MaxFiles
            /\ module_tree = [exists |-> TRUE, readme |-> r, files |-> S]
    /\ gi_pc = "start"
    /\ gi_info = << >>
    /\ fs = NoModules
    /\ CompileIdle
    /\ ValidateIdle
    /\ CourseIdle
    /\ CombineIdle
    /\ MergerIdle
    /\ CliIdle
    /\ MetaIdle
    /\ ExtractIdle
    /\ PipelineIdle

\* get_module_info runs on module_tree.
GetModuleInfo ==
    /\ gi_pc = "start"
    /\ \E found \in Orders(module_tree.files) :
          gi_info' = << get_module_info(module_tree, found) >>
    /\ gi_pc' = "returned"
    /\ UNCHANGED << compileVars, fs, validateVars, courseVars, combineVars,
                    mergerVars, cliVars, metaVars, extractVars, module_tree,
                    pipelineVars >>

NextCatalog == GetModuleInfo

SpecCatalog == InitCatalog /\ [][NextCatalog]_vars

\* The number of times the file f is in the list.
Occurrences(list, f) == Cardinality({k \in 1 .. Len(list) : list[k] = f})

\* The file is somewhere inside a `data` subfolder of the module.
InsideData(f) == "data" \in Range(f.dir)

\* C26 as claimed: in the catalog of get_module_info every file of the module
\* is in exactly one of the lists tex, images, data and other, and every file
\* inside a `data` subfolder is in the data list, whatever its extension.
C26_DataFolderFilesAreData ==
    (gi_pc = "returned" /\ module_tree.exists) =>
        LET files == gi_info[1].files
        IN  \A f \in module_tree.files :
              /\ Occurrences(files.tex, f) + Occurrences(files.images, f)
                    + Occurrences(files.data, f) + Occurrences(files.other, f) = 1
              /\ InsideData(f) => Occurrences(files.data, f) = 1

(***************************************************************************)
(* CourseBuilder.build_custom_course, scripts/build_course.py, run by two  *)
(* pipeline instances side by side                                         *)
(***************************************************************************)

\* The two pipeline instances, and passes=2 of build_custom_course.
Instances == {1, 2}
CoursePasses == 2

\* The output directories the callers pass, as the names from the current
\* directory down: output, output/custom and site.
OutputDirs == {<< "output" >>, << "output", "custom" >>, << "site" >>}

\* Mutant: every instance gets the same working directory.
mkdtemp_Shared(i) == << "tmp", "tmpa" >>

\* tempfile.mkdtemp(): a fresh directory for every FileManager.
mkdtemp(i) == << "tmp", IF i = 1 THEN "tmpa" ELSE "tmpb" >>

\* The directory dir is root or lies below it.
Under(dir, root) == Len(root) <= Len(dir) /\ SubSeq(dir, 1, Len(root)) = root

\* The files of the model: the combined source in a working directory, the
\* compiler's PDF, .aux and .log in an output directory, and the figure that
\* copy_resources puts below an output directory.
File(dir, name) == [dir |-> dir, name |-> name]
CombinedTex(i) == File(mkdtemp(i), "combined_course.tex")
PdfOf(out) == File(out, "combined_course.pdf")
AuxOf(out) == File(out, "combined_course.aux")
LogOf(out) == File(out, "combined_course.log")
FigureIn(out) == File(out \o << "images" >>, "fig.png")
TreeFiles ==
    {CombinedTex(i) : i \in Instances}
    \cup UNION {{PdfOf(d), AuxOf(d), LogOf(d), FigureIn(d)} : d \in OutputDirs}

FileSuffix(name) ==
    CASE name = "combined_course.tex" -> ".tex"
      [] name = "combined_course.pdf" -> ".pdf"
      [] name = "combined_course.aux" -> ".aux"
      [] name = "combined_course.log" -> ".log"
      [] name = "fig.png" -> ".png"

\* The extensions clean_temp_files removes.
TempSuffixes == {".aux", ".log", ".out", ".toc", ".bbl", ".blg", ".fls", ".fdb_latexmk"}

\* What is at a file: nothing, or what an instance wrote there.
EmptyTree == [f \in TreeFiles |-> << >>]
Written(i, content) == << [by |-> i, content |-> content] >>

\* A module with an images directory, which holds the figure fig.png.
FiguresModule ==
    Directory(<< MainTex >>, [NoTexts EXCEPT ![MainTex] = CompleteText],
              {"README.md"}, "dir", FALSE)

\* The build results.
ErrNoValidModules == "No valid modules to build"
BuildFailure(err) == [success |-> FALSE, error |-> err, output_path |-> << >>]
BuildSuccess(file) == [success |-> TRUE, error |-> NoKey, output_path |-> << file >>]

\* Mutant: every requested module is passed on.
valid_modules_Unfiltered(names, disk) == names

\* The validation loop of build_custom_course: the requested modules that
\* validate_module finds valid, in the caller's order.
valid_modules(names, disk) ==
    SelectSeq(names, LAMBDA n : validate_module(n, disk[n]).valid)

\* copy_resources(module_path, output_path) for each valid module from the
\* k-th on: the module's figure is copied below the output directory.
RECURSIVE copy_resources(_, _, _, _, _, _)
copy_resources(i, t, modules, disk, out, k) ==
    IF k > Len(modules) THEN t
    ELSE copy_resources(i,
                        IF Exists(disk[modules[k]]) /\ disk[modules[k]].images = "dir"
                        THEN [t EXCEPT ![FigureIn(out)] = Written(i, "fig.png")]
                        ELSE t,
                        modules, disk, out, k + 1)

\* clean_temp_files(directory): dir_path.glob('**/*<ext>') for each of the
\* extensions, and unlink for every file found.
clean_temp_files(t, directory) ==
    [f \in TreeFiles |->
        IF Under(f.dir, directory) /\ FileSuffix(f.name) \in TempSuffixes
        THEN << >> ELSE t[f]]

\* shutil.rmtree(self.temp_dir)
rmtree(t, directory) ==
    [f \in TreeFiles |-> IF Under(f.dir, directory) THEN << >> ELSE t[f]]

\* What one pass of the compiler can come to: the compiler is not installed,
\* it exits with status zero and writes the PDF, or it fails.
PassOutcomes == {"no_compiler", "ok", "failed"}

\* One pass of compile_tex_file(combined_tex, output_path) by instance i: the
\* compiler reads the combined source and the .aux file of an earlier pass,
\* and writes the .log, and with status zero the .aux and the PDF.
compile_pass(i, t, tex, out, outcome) ==
    IF t[tex] = << >> THEN [result |-> BuildFailure("not_found"), tree |-> t]
    ELSE IF outcome = "no_compiler" THEN [result |-> BuildFailure("no_compiler"), tree |-> t]
    ELSE LET logged == [t EXCEPT ![LogOf(out)] = Written(i, "log")]
         IN  IF outcome = "ok"
             THEN [result |-> BuildSuccess(PdfOf(out)),
                   tree |-> [logged EXCEPT
                                ![AuxOf(out)] = Written(i, "aux"),
                                ![PdfOf(out)] =
                                    Written(i, [source |-> t[tex][1].content,
                                                toc |-> t[AuxOf(out)] # << >>])]]
             ELSE [result |-> BuildFailure("failed"), tree |-> logged]

\* An entry of the history of an instance: the step and what it was given.
Event(step, arg) == [step |-> step, arg |-> arg]

\* CourseBuilder() and the arguments of build_custom_course.
NewBuilder(out, names, cleanup) ==
    [pc |-> "start", output_dir |-> out, module_names |-> names,
     cleanup_temp |-> cleanup, valid_modules |-> << >>, combined_tex |-> << >>,
     pass |-> 0, compile_result |-> << >>, result |-> << >>,
     events |-> << >>, choices |-> << >>]

\* What the environment decides at a position: whether the combined source
\* can be written, and how a compiler pass ends.
Choices(pc) ==
    IF pc = "combine" THEN {"written", "write_error"}
    ELSE IF pc = "compile" THEN PassOutcomes
    ELSE {"none"}

\* One step of build_custom_course by instance i at b on the tree t, the
\* environment deciding c: the validation loop; combine_modules; the
\* copy_resources loop; a compiler pass; clean_temp_files and the return;
\* and last FileManager.__del__.
build_step(i, b, t, c, disk) ==
    LET b1 == [b EXCEPT !.choices = Append(@, c)]
    IN  CASE b.pc = "start" ->
                LET valid == valid_modules(b.module_names, disk)
                    ev == [k \in 1 .. Len(b.module_names) |->
                              Event("validate", << b.module_names[k] >>)]
                IN  IF valid = << >>
                    THEN [b |-> [b1 EXCEPT !.pc = "returned",
                                           !.events = @ \o ev,
                                           !.result = << BuildFailure(ErrNoValidModules) >>],
                          tree |-> t]
                    ELSE [b |-> [b1 EXCEPT !.pc = "combine",
                                           !.valid_modules = valid,
                                           !.events = @ \o ev],
                          tree |-> t]
          [] b.pc = "combine" ->
                LET r == combine_modules(b.valid_modules, "combined_course.tex", disk)
                IN  IF r.aborted \/ c = "write_error"
                    THEN [b |-> [b1 EXCEPT !.pc = "raised",
                                           !.events = Append(@, Event("combine", b.valid_modules))],
                          tree |-> t]
                    ELSE [b |-> [b1 EXCEPT !.pc = "copy",
                                           !.combined_tex = << CombinedTex(i) >>,
                                           !.events = @ \o << Event("combine", b.valid_modules),
                                                              Event("written", << >>) >>],
                          tree |-> [t EXCEPT ![CombinedTex(i)] = Written(i, r.doc.body)]]
          [] b.pc = "copy" ->
                [b |-> [b1 EXCEPT !.pc = "compile",
                                  !.events = Append(@, Event("copy", b.valid_modules))],
                 tree |-> copy_resources(i, t, b.valid_modules, disk, b.output_dir, 1)]
          [] b.pc = "compile" ->
                LET r == compile_pass(i, t, b.combined_tex[1], b.output_dir, c)
                IN  [b |-> [b1 EXCEPT !.pass = @ + 1,
                                      !.compile_result = << r.result >>,
                                      !.events = Append(@, Event("compile", << >>)),
                                      !.pc = IF BreakOnFailure(r.result) THEN "cleanup"
                                             ELSE IF LoopContinues(b.pass + 1, CoursePasses)
                                             THEN "compile" ELSE "cleanup"],
                     tree |-> r.tree]
          [] b.pc = "cleanup" ->
                [b |-> [b1 EXCEPT !.pc = "returned",
                                  !.result = b.compile_result,
                                  !.events = IF b.cleanup_temp
                                             THEN Append(@, Event("cleanup", << >>))
                                             ELSE @],
                 tree |-> IF b.cleanup_temp THEN clean_temp_files(t, b.output_dir) ELSE t]
          [] OTHER ->
                [b |-> [b1 EXCEPT !.pc = "done"], tree |-> rmtree(t, mkdtemp(i))]

\* The courses the two instances build from.
PipelineCourses ==
    {[p \in Paths |-> CASE p = "intro" -> a [] p = "labs" -> l [] OTHER -> Absent] :
        a \in {FiguresModule, BrokenModule}, l \in {BareModule, BrokenModule}}

InitPipeline ==
    /\ \E o1, o2 \in OutputDirs, c1, c2 \in BOOLEAN,
          n1 \in {<< "intro", "labs" >>, << "labs", "intro" >>} :
        /\ o1 # o2
        /\ builder = << NewBuilder(o1, n1, c1), NewBuilder(o2, << "labs" >>, c2) >>
    /\ file_tree = EmptyTree
    /\ fs \in PipelineCourses
    /\ CompileIdle
    /\ ValidateIdle
    /\ CourseIdle
    /\ CombineIdle
    /\ MergerIdle
    /\ CliIdle
    /\ MetaIdle
    /\ ExtractIdle
    /\ CatalogIdle

\* Instance i takes its next step, the environment deciding c.
BuildStep(i, c) ==
    LET r == build_step(i, builder[i], file_tree, c, fs)
    IN  /\ builder' = [builder EXCEPT ![i] = r.b]
        /\ file_tree' = r.tree
        /\ UNCHANGED << compileVars, fs, validateVars, courseVars, combineVars,
                        mergerVars, cliVars, metaVars, extractVars, catalogVars >>

\* The validation loop, and the early return when no module is valid.
ValidateModules(i) ==
    /\ builder[i].pc = "start"
    /\ BuildStep(i, "none")

\* combine_modules: the combined source is written to the working directory,
\* or writing it raises.
CombineSources(i) ==
    /\ builder[i].pc = "combine"
    /\ \E c \in Choices("combine") : BuildStep(i, c)

\* The copy_resources loop.
CopyResources(i) ==
    /\ builder[i].pc = "copy"
    /\ BuildStep(i, "none")

\* One pass of compile_multiple_passes.
CompileCombined(i) ==
    /\ builder[i].pc = "compile"
    /\ \E c \in Choices("compile") : BuildStep(i, c)

\* clean_temp_files when the configuration asks for it, and the return.
CleanAndReturn(i) ==
    /\ builder[i].pc = "cleanup"
    /\ BuildStep(i, "none")

\* FileManager.__del__ removes the working directory.
Teardown(i) ==
    /\ builder[i].pc \in {"returned", "raised"}
    /\ BuildStep(i, "none")

NextPipeline ==
    \E i \in Instances :
        \/ ValidateModules(i)
        \/ CombineSources(i)
        \/ CopyResources(i)
        \/ CompileCombined(i)
        \/ CleanAndReturn(i)
        \/ Teardown(i)

SpecPipeline == InitPipeline /\ [][NextPipeline]_vars
\* The steps instance i has taken so far, taken again with no other instance
\* about: from the instance as constructed on an empty tree, the environment
\* deciding as it did.
RECURSIVE replay(_, _, _, _, _, _)
replay(i, b, t, choices, disk, k) ==
    IF k > Len(choices) THEN [b |-> b, tree |-> t]
    ELSE LET r == build_step(i, b, t, choices[k], disk)
         IN  replay(i, r.b, r.tree, choices, disk, k + 1)

RunAlone(i) ==
    replay(i, NewBuilder(builder[i].output_dir, builder[i].module_names,
                         builder[i].cleanup_temp),
           EmptyTree, builder[i].choices, fs, 1)

\* What instance i has produced: the files that hold what it wrote.
Produced(t, i) ==
    [f \in TreeFiles |-> IF t[f] # << >> /\ t[f][1].by = i THEN t[f] ELSE << >>]

\* Instance i is where it would be alone: its position, locals and result,
\* and the files it has produced, are those of its run on its own.
Undisturbed(i) ==
    /\ builder[i] = RunAlone(i).b
    /\ Produced(file_tree, i) = Produced(RunAlone(i).tree, i)

\* Neither output directory is the other or lies inside it.
SeparateOutputs ==
    /\ ~Under(builder[1].output_dir, builder[2].output_dir)
    /\ ~Under(builder[2].output_dir, builder[1].output_dir)

\* C23 as claimed: two pipeline instances whose working directories differ
\* and whose output directories differ run interleaved without interference:
\* no step of one creates, overwrites or deletes a file the other reads or
\* has produced, and each instance's result is the one it gets alone.
C23_DistinctDirectoriesSuffice ==
    (mkdtemp(1) # mkdtemp(2) /\ builder[1].output_dir # builder[2].output_dir) =>
        \A i \in Instances : Undisturbed(i)

\* C23, amended: two pipeline instances run interleaved without interference
\* when their output directories are separate, neither being the other nor
\* lying inside it (their working directories always differ): each
\* instance's position, result and produced files are at every moment those
\* of its run alone.  With one output directory inside the other, the
\* clean_temp_files of the outer instance removes the .aux and .log files of
\* the inner one.
C23_SeparateDirectoriesSuffice ==
    SeparateOutputs => \A i \in Instances : Undisturbed(i)

\* C23 witness: with separate output directories the first instance has
\* cleaned up and returned while the second is between its two compiler
\* passes, its .aux file in place.
C23_Witness ==
    /\ SeparateOutputs
    /\ builder[1].pc = "returned" /\ builder[1].cleanup_temp
    /\ builder[1].result[1].success
    /\ builder[2].pc = "compile" /\ builder[2].pass = 1
    /\ file_tree[AuxOf(builder[2].output_dir)] # << >>

\* The positions in the history of instance i of the events of a step.
EventsAt(i, step) ==
    {k \in 1 .. Len(builder[i].events) : builder[i].events[k].step = step}

\* The requested modules of instance i that validate_module finds valid.
ValidRequested(i) ==
    SelectSeq(builder[i].module_names,
              LAMBDA n : validate_module(n, fs[n]).valid)

\* C25: the steps of build_custom_course happen in a fixed order: every
\* requested module is validated first; only the valid modules are passed to
\* combine_modules, in the caller's order; compilation starts only after the
\* combined source has been written; cleanup runs only after the last
\* compiler pass.  When no requested module is valid, neither combine_modules
\* nor the compiler is invoked and the failure result is returned.
C25_FixedStepOrder ==
    \A i \in Instances :
        LET b  == builder[i]
            ev == b.events
            n  == Len(b.module_names)
        IN  b.pc # "start" =>
              /\ Len(ev) >= n
              /\ \A k \in 1 .. Len(ev) :
                    ev[k].step = "validate"
                        <=> (k <= n /\ ev[k].arg = << b.module_names[k] >>)
              /\ \A k \in EventsAt(i, "combine") : ev[k].arg = ValidRequested(i)
              /\ \A k \in EventsAt(i, "compile") :
                    \E w \in EventsAt(i, "written") : w < k
              /\ \A w \in EventsAt(i, "written") :
                    \E k \in EventsAt(i, "combine") : k < w
              /\ \A c \in EventsAt(i, "cleanup") :
                    /\ EventsAt(i, "compile") # {}
                    /\ \A k \in EventsAt(i, "compile") : k < c
                    /\ b.pc \in {"returned", "done"}
              /\ ValidRequested(i) = << >> =>
                    /\ EventsAt(i, "combine") = {}
                    /\ EventsAt(i, "compile") = {}
                    /\ b.pc \in {"returned", "done"}
                    /\ b.result = << BuildFailure(ErrNoValidModules) >>

\* C25 witness: of the requested modules labs and intro only intro is valid;
\* it alone was combined, both passes ran, cleanup came last and the build
\* succeeded.
C25_Witness ==
    /\ builder[1].module_names = << "labs", "intro" >>
    /\ builder[1].valid_modules = << "intro" >>
    /\ builder[1].pc = "returned"
    /\ builder[1].pass = CoursePasses
    /\ builder[1].result[1].success
    /\ EventsAt(1, "cleanup") # {}

====
